---- MODULE Spec2Model ----
(***************************************************************************)
(* Model of the contribution-margin-chart core: CVPCalculator,             *)
(* TreemapLayoutEngine (packages/core/src/layout/index.ts) and the         *)
(* TreemapRenderer block painter (packages/chartjs/src/TreemapRenderer.ts).*)
(*                                                                         *)
(* Numbers.  Monetary inputs are integers.  Every derived number (ratio,   *)
(* normalized coordinate, pixel coordinate) is an exact number             *)
(* [n |-> numerator, d |-> denominator, e10 |-> decimal exponent] standing *)
(* for (n / d) * 10^e10, with d > 0 and n / d in lowest terms.  Arithmetic *)
(* on integers yields exponent 0, so two equal numbers are equal records;  *)
(* a nonzero exponent is only written for PRECISION_EPSILON (1e-10) and    *)
(* for ratios below it, which 32-bit numerators and denominators cannot    *)
(* express.  IEEE rounding is not modelled.                                *)
(***************************************************************************)
EXTENDS Integers, Sequences, FiniteSets, TLC

VARIABLES
    input,       \* arguments of the generateLayout call: CVPInput
    options,     \* arguments of the generateLayout call: DisplayOptions
    colors,      \* TreemapLayoutEngine.colors
    labels,      \* TreemapLayoutEngine.labels
    formatter,   \* TreemapLayoutEngine.formatter (its resolved FormatOptions)
    layout,      \* TreemapLayoutOutput returned by the last generateLayout
    calls,       \* number of generateLayout calls made on this engine
    chartArea,   \* TreemapRenderer.chartArea of the last renderBlocks
    painted,     \* rectangles filled on the canvas by the last renderBlocks
    calcValues,  \* CVPCalculatedValues returned by the last calculate(input)
    bepCall,     \* last calculateBreakEvenPoint call: arguments and result
    chart,       \* the Chart instance: plugin options, $cvpTreemap, $cvp, scales
    lastCall,    \* the caller's last operation on the chart and its argument
    drawn,       \* what afterDraw has rendered since the caller's last operation
    candidate,   \* the object handed to CVPValidator.validate
    validation,  \* ValidationResult returned by the last validate(candidate)
    barEngine,   \* LayoutEngine instance: the options it was constructed with,
                 \* its colors, labels and formatter
    barCall      \* last call on the LayoutEngine: operation, arguments, result

engineVars == <<input, options, colors, labels, formatter, layout, calls>>

calculatorVars == <<calcValues, bepCall>>

pluginVars == <<chart, lastCall, drawn>>

vars == <<input, options, colors, labels, formatter, layout, calls, chartArea, painted,
          calcValues, bepCall, chart, lastCall, drawn, candidate, validation,
          barEngine, barCall>>

----------------------------------------------------------------------------
(* Bounds *)

MaxSales == 7
MaxCost == 8
MaxCalls == 2

----------------------------------------------------------------------------
(* Exact rational arithmetic standing for JavaScript numbers *)

RECURSIVE GCD(_, _)
GCD(a, b) == IF b = 0 THEN a ELSE GCD(b, a % b)

Abs(k) == IF k < 0 THEN -k ELSE k

RECURSIVE Pow10(_)
Pow10(k) == IF k = 0 THEN 1 ELSE 10 * Pow10(k - 1)

\* floor(y / 10^k) for y >= 0, k >= 0, by k integer divisions
RECURSIVE DivPow10(_, _)
DivPow10(y, k) == IF k = 0 THEN y ELSE DivPow10(y \div 10, k - 1)

\* x * 10^k <= y for naturals x, y and any integer k, without forming 10^k
NatScaledLe(x, k, y) ==
    IF k >= 0 THEN x <= DivPow10(y, k)
    ELSE ~(x >= 1 /\ y <= DivPow10(x - 1, -k))

\* the number (n / d) * 10^e10; a zero has exponent 0
RSci(n, d, e10) ==
    LET s == IF d < 0 THEN -1 ELSE 1
        g == GCD(Abs(n), Abs(d))
    IN  [n |-> (s * n) \div g, d |-> (s * d) \div g,
         e10 |-> IF n = 0 THEN 0 ELSE e10]

R(n, d) == RSci(n, d, 0)

RInt(k) == [n |-> k, d |-> 1, e10 |-> 0]

\* a written with the decimal exponent e10 <= a.e10
Rescaled(a, e10) == [n |-> a.n * Pow10(a.e10 - e10), d |-> a.d]

RAdd(a, b) ==
    LET e10 == IF a.e10 < b.e10 THEN a.e10 ELSE b.e10
        x == Rescaled(a, e10)
        y == Rescaled(b, e10)
    IN  RSci(x.n * y.d + y.n * x.d, x.d * y.d, e10)

RSub(a, b) ==
    LET e10 == IF a.e10 < b.e10 THEN a.e10 ELSE b.e10
        x == Rescaled(a, e10)
        y == Rescaled(b, e10)
    IN  RSci(x.n * y.d - y.n * x.d, x.d * y.d, e10)

RMul(a, b) == RSci(a.n * b.n, a.d * b.d, a.e10 + b.e10)
RDiv(a, b) == RSci(a.n * b.d, a.d * b.n, a.e10 - b.e10)

RLe(a, b) ==
    LET x == a.n * b.d
        y == b.n * a.d
        k == a.e10 - b.e10
    IN  IF x >= 0 /\ y >= 0 THEN NatScaledLe(x, k, y)
        ELSE IF x < 0 /\ y < 0 THEN NatScaledLe(-y, -k, -x)
        ELSE x < 0

RLt(a, b) == ~RLe(b, a)
RMax(a, b) == IF RLt(a, b) THEN b ELSE a
RAbs(a) == [n |-> Abs(a.n), d |-> a.d, e10 |-> a.e10]

Zero == RInt(0)
One == RInt(1)

----------------------------------------------------------------------------
(* constants/index.ts *)

BlockTypes == {"sales", "variable", "contribution", "fixed", "profit", "loss"}

DEFAULT_COLORS ==
    [sales |-> "#4A90E2", variable |-> "#F5A623", contribution |-> "#7ED321",
     fixed |-> "#9B9B9B", profit |-> "#417505", loss |-> "#D0021B"]

PASTEL_COLORS ==
    [sales |-> "#A8D5E5", variable |-> "#FFD5A5", contribution |-> "#C5E8B7",
     fixed |-> "#D5D5D5", profit |-> "#B5D99A", loss |-> "#F5B5B5"]

\* the schemes the model's options name (of default, pastel, vivid,
\* monochrome, colorblind)
COLOR_SCHEMES ==
    [default |-> [name |-> "default", colors |-> DEFAULT_COLORS],
     pastel  |-> [name |-> "pastel", colors |-> PASTEL_COLORS]]

\* An options object is a function from the keys it has to their values;
\* a key outside its DOMAIN is a property that reads as undefined.
\* The keys the layout engine and the formatter read; "JPY" stands for the
\* yen sign.
DEFAULT_DISPLAY_OPTIONS ==
    [showValues |-> TRUE, showPercentages |-> FALSE, showLabels |-> TRUE,
     unitMode |-> "thousand", currencySymbol |-> "JPY", locale |-> "ja-JP",
     decimalPlaces |-> 0,
     colorScheme |-> "default", customColors |-> DEFAULT_COLORS,
     orientation |-> "horizontal", lossDisplayMode |-> "negative-bar",
     showBEPLine |-> TRUE,
     bepOptions |-> [showLine |-> TRUE, showLabel |-> TRUE, showZone |-> FALSE,
                     lineStyle |-> [strokeWidth |-> 2, dashArray |-> "5,5",
                                    color |-> "#666666"],
                     labelPosition |-> "top", labelContent |-> "value"],
     showContributionEllipse |-> FALSE]

\* the block labels; "ja:<key>" stands for the Japanese string of <key>
LABELS_JA ==
    [sales |-> "ja:sales", variable |-> "ja:variable",
     contribution |-> "ja:contribution", fixed |-> "ja:fixed",
     profit |-> "ja:profit", loss |-> "ja:loss",
     breakEvenPoint |-> "ja:breakEvenPoint",
     contributionMarginRatio |-> "ja:contributionMarginRatio"]

LABELS_EN ==
    [sales |-> "Sales", variable |-> "Variable Costs",
     contribution |-> "Contribution Margin", fixed |-> "Fixed Costs",
     profit |-> "Operating Profit", loss |-> "Loss",
     breakEvenPoint |-> "Break-Even Point", contributionMarginRatio |-> "CM Ratio"]

\* locale.startsWith('ja')
StartsWithJa(locale) == locale \in {"ja", "ja-JP"}

getLabels(locale) == IF StartsWithJa(locale) THEN LABELS_JA ELSE LABELS_EN

\* o.k ?? dflt
Get(o, k, dflt) == IF k \in DOMAIN o THEN o[k] ELSE dflt

\* { ...a, ...b }
Spread(a, b) == [k \in (DOMAIN a) \cup (DOMAIN b) |-> IF k \in DOMAIN b THEN b[k] ELSE a[k]]

EmptyObject == [k \in {} |-> TRUE]

UNIT_DIVISORS == [raw |-> 1, thousand |-> 1000, million |-> 1000000]

UNIT_SUFFIXES ==
    [ja |-> [raw |-> "", thousand |-> "ja:thousand", million |-> "ja:million"],
     en |-> [raw |-> "", thousand |-> "K", million |-> "M"]]

----------------------------------------------------------------------------
(* CVPCalculator (packages/core/src/index.ts) *)

Null == [null |-> TRUE, n |-> 0, d |-> 1, e10 |-> 0]
Some(r) == [null |-> FALSE, n |-> r.n, d |-> r.d, e10 |-> r.e10]
Val(x) == [n |-> x.n, d |-> x.d, e10 |-> x.e10]

\* VALIDATION_THRESHOLDS.PRECISION_EPSILON, 1e-10
PRECISION_EPSILON == RSci(1, 1, -10)

\* Mutant: the zero guard tests the numerator instead of the denominator
safeRatio_GuardsNumerator(numerator, denominator) ==
    IF RLt(RAbs(RInt(numerator)), PRECISION_EPSILON) THEN Zero
    ELSE R(numerator, denominator)

safeRatio(numerator, denominator) ==
    IF RLt(RAbs(RInt(denominator)), PRECISION_EPSILON) THEN Zero
    ELSE R(numerator, denominator)

\* numerator: number | null
calculateRatio(numerator, denominator) ==
    IF numerator.null THEN Null
    ELSE IF RLt(RAbs(RInt(denominator)), PRECISION_EPSILON) THEN Some(Zero)
    ELSE Some(RDiv(Val(numerator), RInt(denominator)))

\* Mutant: the null guard compares with 0 strictly, so a zero
\* contributionMarginRatio reaches the division
calculateBreakEvenPoint_StrictZeroGuard(fixedCosts, contributionMarginRatio) ==
    IF RLt(contributionMarginRatio, Zero) THEN Null
    ELSE IF fixedCosts <= 0 THEN Some(Zero)
    ELSE Some(RDiv(RInt(fixedCosts), contributionMarginRatio))

\* Mutant: the fixedCosts <= 0 shortcut is tested before the null guard
calculateBreakEvenPoint_FixedCostsFirst(fixedCosts, contributionMarginRatio) ==
    IF fixedCosts <= 0 THEN Some(Zero)
    ELSE IF RLe(contributionMarginRatio, PRECISION_EPSILON) THEN Null
    ELSE Some(RDiv(RInt(fixedCosts), contributionMarginRatio))

calculateBreakEvenPoint(fixedCosts, contributionMarginRatio) ==
    IF RLe(contributionMarginRatio, PRECISION_EPSILON) THEN Null
    ELSE IF fixedCosts <= 0 THEN Some(Zero)
    ELSE Some(RDiv(RInt(fixedCosts), contributionMarginRatio))

\* Mutant: a null breakEvenPoint is treated as 0
calculateSafetyMargin_NullAsZero(sales, breakEvenPoint) ==
    Some(RSub(RInt(sales), Val(breakEvenPoint)))

calculateSafetyMargin(sales, breakEvenPoint) ==
    IF breakEvenPoint.null THEN Null
    ELSE Some(RSub(RInt(sales), Val(breakEvenPoint)))

\* CVPCalculator.calculate; laborDistributionRatio is left out (the inputs
\* of the model carry no variableCostBreakdown, so it is always null)
calculate(in) ==
    LET contributionMargin == in.sales - in.variableCosts
        contributionMarginRatio == safeRatio(contributionMargin, in.sales)
        operatingProfit == contributionMargin - in.fixedCosts
        operatingProfitRatio == safeRatio(operatingProfit, in.sales)
        breakEvenPoint == calculateBreakEvenPoint(in.fixedCosts, contributionMarginRatio)
        breakEvenRatio == IF ~breakEvenPoint.null
                          THEN calculateRatio(breakEvenPoint, in.sales) ELSE Null
        safetyMargin == calculateSafetyMargin(in.sales, breakEvenPoint)
        safetyMarginRatio == IF ~safetyMargin.null
                             THEN calculateRatio(safetyMargin, in.sales) ELSE Null
    IN  [contributionMargin |-> contributionMargin,
         contributionMarginRatio |-> contributionMarginRatio,
         operatingProfit |-> operatingProfit,
         operatingProfitRatio |-> operatingProfitRatio,
         breakEvenPoint |-> breakEvenPoint,
         breakEvenRatio |-> breakEvenRatio,
         safetyMargin |-> safetyMargin,
         safetyMarginRatio |-> safetyMarginRatio,
         variableCostRatio |-> safeRatio(in.variableCosts, in.sales),
         fixedCostRatio |-> safeRatio(in.fixedCosts, in.sales)]

----------------------------------------------------------------------------
(* ValueFormatter (packages/core/src/formatter/ValueFormatter.ts) *)

\* new ValueFormatter({unitMode, locale, decimalPlaces, currencySymbol})
fromDisplayOptions(displayOptions) ==
    [unitMode |-> Get(displayOptions, "unitMode", DEFAULT_DISPLAY_OPTIONS.unitMode),
     locale |-> Get(displayOptions, "locale", DEFAULT_DISPLAY_OPTIONS.locale),
     decimalPlaces |-> Get(displayOptions, "decimalPlaces", DEFAULT_DISPLAY_OPTIONS.decimalPlaces),
     currencySymbol |-> Get(displayOptions, "currencySymbol", DEFAULT_DISPLAY_OPTIONS.currencySymbol)]

\* The formatted string, as its parts in order: currency symbol, sign,
\* the scaled number with the places and locale it is printed in, suffix.
format(fmt, value) ==
    LET localePrefix == IF StartsWithJa(fmt.locale) THEN "ja" ELSE "en"
    IN  [symbol |-> fmt.currencySymbol,
         sign |-> IF RLt(value, Zero) THEN "-" ELSE "",
         number |-> RDiv(RAbs(value), RInt(UNIT_DIVISORS[fmt.unitMode])),
         decimalPlaces |-> fmt.decimalPlaces,
         locale |-> fmt.locale,
         suffix |-> UNIT_SUFFIXES[localePrefix][fmt.unitMode]]

----------------------------------------------------------------------------
(* TreemapLayoutEngine (packages/core/src/layout/index.ts) *)

\* parseInt(hex.substr(..), 16) of the three channels, for the colors in use
HexChannels ==
    [c \in {"#4A90E2", "#F5A623", "#7ED321", "#9B9B9B", "#417505", "#D0021B",
            "#A8D5E5", "#FFD5A5", "#C5E8B7", "#D5D5D5", "#B5D99A", "#F5B5B5",
            "#123456"} |->
        CASE c = "#4A90E2" -> <<74, 144, 226>>
          [] c = "#F5A623" -> <<245, 166, 35>>
          [] c = "#7ED321" -> <<126, 211, 33>>
          [] c = "#9B9B9B" -> <<155, 155, 155>>
          [] c = "#417505" -> <<65, 117, 5>>
          [] c = "#D0021B" -> <<208, 2, 27>>
          [] c = "#A8D5E5" -> <<168, 213, 229>>
          [] c = "#FFD5A5" -> <<255, 213, 165>>
          [] c = "#C5E8B7" -> <<197, 232, 183>>
          [] c = "#D5D5D5" -> <<213, 213, 213>>
          [] c = "#B5D99A" -> <<181, 217, 154>>
          [] c = "#F5B5B5" -> <<245, 181, 181>>
          [] c = "#123456" -> <<18, 52, 86>>]

\* luminance = (0.299 r + 0.587 g + 0.114 b) / 255 > 0.5, times 255000
getContrastColor(bgColor) ==
    LET rgb == HexChannels[bgColor]
    IN  IF 299 * rgb[1] + 587 * rgb[2] + 114 * rgb[3] > 127500
        THEN "#333333" ELSE "#FFFFFF"

resolveColors(opts) ==
    LET scheme == IF "colorScheme" \in DOMAIN opts /\ opts.colorScheme \in DOMAIN COLOR_SCHEMES
                  THEN COLOR_SCHEMES[opts.colorScheme].colors
                  ELSE DEFAULT_COLORS
    IN  IF "customColors" \in DOMAIN opts
        THEN Spread(scheme, opts.customColors)
        ELSE scheme

\* Mutant: when a named colorScheme is given, only it is merged over the
\* defaults and the other options of the call are dropped
mergeOptions_SchemeDropsOptions(opts) ==
    IF "colorScheme" \in DOMAIN opts
    THEN Spread(DEFAULT_DISPLAY_OPTIONS, [colorScheme |-> opts.colorScheme])
    ELSE Spread(DEFAULT_DISPLAY_OPTIONS, opts)

mergeOptions(opts) == Spread(DEFAULT_DISPLAY_OPTIONS, opts)

\* block.meta: a block built without meta reads every key as absent
NoMeta == [isLoss |-> FALSE, extendsBelow |-> FALSE, displayMode |-> "undefined"]

Block(type, label, value, x, y, width, height, color, textColor, percentage, isCalculated, meta) ==
    [id |-> type, type |-> type, label |-> label, value |-> value,
     x |-> x, y |-> y, width |-> width, height |-> height,
     color |-> color, borderColor |-> "#FFFFFF", textColor |-> textColor,
     percentage |-> percentage, isCalculated |-> isCalculated, meta |-> meta]

separateGap == R(1, 100)
minLossHeight == R(15, 100)
salesWidth == R(35, 100)

\* Mutant: no extension is computed (the layout before heightExtension existed)
heightExtensionOf_NoExtension(in, calculated, lossDisplayMode) == One

\* Mutant: the negative-bar formula is applied without the isLoss test
heightExtensionOf_NoLossTest(in, calculated, lossDisplayMode) ==
    IF in.sales > 0 /\ lossDisplayMode = "negative-bar"
    THEN R(in.variableCosts + in.fixedCosts, in.sales)
    ELSE One

\* generateBlocks, "Calculate height extension for loss"
heightExtensionOf(in, calculated, lossDisplayMode) ==
    LET sales == in.sales
        totalCosts == in.variableCosts + in.fixedCosts
        isLoss == calculated.operatingProfit < 0
        lossRatio == R(Abs(calculated.operatingProfit), sales)
        lossBlockHeight == RMax(lossRatio, minLossHeight)
    IN  IF isLoss /\ lossDisplayMode = "negative-bar" THEN R(totalCosts, sales)
        ELSE IF isLoss /\ lossDisplayMode = "separate"
             THEN RAdd(RAdd(One, separateGap), lossBlockHeight)
        ELSE One

\* Mutant: the profit block is stacked at the top of the contribution block
\* (contributionY) instead of below the fixed-costs block
profitBlockOf_AtContributionY(cols, labs, in, calculated) ==
    LET rightWidth == RSub(One, salesWidth)
        profitRatio == R(calculated.operatingProfit, in.sales)
    IN  Block("profit", labs.profit, RInt(calculated.operatingProfit),
              RAdd(salesWidth, RMul(rightWidth, R(1, 2))),
              R(in.variableCosts, in.sales), RMul(rightWidth, R(1, 2)), profitRatio,
              cols.profit, getContrastColor(cols.profit), profitRatio, TRUE, NoMeta)

\* generateBlocks, "Block 5: Profit"
profitBlockOf(cols, labs, in, calculated) ==
    LET sales == in.sales
        rightWidth == RSub(One, salesWidth)
        innerRightX == RAdd(salesWidth, RMul(rightWidth, R(1, 2)))
        innerRightWidth == RMul(rightWidth, R(1, 2))
        contributionY == R(in.variableCosts, sales)
        fixedRatio == R(in.fixedCosts, sales)
        profitRatio == R(calculated.operatingProfit, sales)
        profitY == RAdd(contributionY, fixedRatio)
    IN  Block("profit", labs.profit, RInt(calculated.operatingProfit), innerRightX,
              profitY, innerRightWidth, profitRatio,
              cols.profit, getContrastColor(cols.profit), profitRatio, TRUE, NoMeta)

\* Mutant: the all-loss block fills the rest of the reference unit
\* (height 1 - variableHeight) instead of being sized to the loss
allLossBlockOf_FillRemainder(cols, labs, in, calculated) ==
    LET variableHeight == R(in.variableCosts, in.sales)
    IN  Block("loss", labs.loss, RInt(calculated.operatingProfit), salesWidth,
              variableHeight, RSub(One, salesWidth), RSub(One, variableHeight), cols.loss,
              getContrastColor(cols.loss), R(Abs(calculated.operatingProfit), in.sales), TRUE,
              [isLoss |-> TRUE, extendsBelow |-> TRUE, displayMode |-> "undefined"])

\* generateBlocks, "Negative or zero contribution margin - all loss"
allLossBlockOf(cols, labs, in, calculated) ==
    LET sales == in.sales
        rightWidth == RSub(One, salesWidth)
        rightX == salesWidth
        variableHeight == R(in.variableCosts, sales)
        lossAmount == Abs(calculated.operatingProfit)
    IN  Block("loss", labs.loss, RInt(calculated.operatingProfit), rightX,
              variableHeight, rightWidth, R(lossAmount, sales), cols.loss,
              getContrastColor(cols.loss), R(lossAmount, sales), TRUE,
              [isLoss |-> TRUE, extendsBelow |-> TRUE, displayMode |-> "undefined"])

\* Mutant: the early return for sales <= 0 is missing its block list reset
\* and still emits the sales block
generateBlocks_SalesBlockOnEmpty(cols, labs, in, calculated, opts) ==
    [blocks |-> <<Block("sales", labs.sales, RInt(in.sales), Zero, Zero, salesWidth,
                        One, cols.sales, getContrastColor(cols.sales), One, FALSE,
                        NoMeta)>>,
     heightExtension |-> One]

generateBlocks(cols, labs, in, calculated, opts) ==
    LET sales == in.sales
        isLoss == calculated.operatingProfit < 0
        lossDisplayMode == Get(opts, "lossDisplayMode", "negative-bar")
        heightExtension == heightExtensionOf(in, calculated, lossDisplayMode)
        variableRatio == R(in.variableCosts, sales)
        contributionRatio == R(calculated.contributionMargin, sales)
        fixedRatio == R(in.fixedCosts, sales)
        rightWidth == RSub(One, salesWidth)
        rightX == salesWidth
        variableHeight == variableRatio
        contributionY == variableHeight
        contributionHeight == contributionRatio
        innerRightX == RAdd(rightX, RMul(rightWidth, R(1, 2)))
        innerRightWidth == RMul(rightWidth, R(1, 2))
        lossRatio == R(Abs(calculated.operatingProfit), sales)
        salesBlock ==
            Block("sales", labs.sales, RInt(sales), Zero, Zero, salesWidth, One,
                  cols.sales, getContrastColor(cols.sales), One, FALSE, NoMeta)
        variableBlock ==
            Block("variable", labs.variable, RInt(in.variableCosts), rightX, Zero,
                  rightWidth, variableHeight, cols.variable,
                  getContrastColor(cols.variable), variableRatio, FALSE, NoMeta)
        contributionBlock ==
            Block("contribution", labs.contribution, RInt(calculated.contributionMargin),
                  rightX, contributionY, RMul(rightWidth, R(1, 2)), contributionHeight,
                  cols.contribution, getContrastColor(cols.contribution),
                  contributionRatio, TRUE, NoMeta)
        fixedBlock ==
            Block("fixed", labs.fixed, RInt(in.fixedCosts), innerRightX, contributionY,
                  innerRightWidth, fixedRatio, cols.fixed, getContrastColor(cols.fixed),
                  fixedRatio, FALSE, NoMeta)
        negativeBarLoss ==
            Block("loss", labs.loss, RInt(calculated.operatingProfit), innerRightX,
                  One, innerRightWidth, lossRatio, cols.loss,
                  getContrastColor(cols.loss), lossRatio, TRUE,
                  [isLoss |-> TRUE, extendsBelow |-> TRUE, displayMode |-> "undefined"])
        separateLoss ==
            Block("loss", labs.loss, RInt(calculated.operatingProfit), innerRightX,
                  RAdd(One, separateGap), innerRightWidth, RMax(lossRatio, minLossHeight),
                  cols.loss, "#FFFFFF", lossRatio, TRUE,
                  [isLoss |-> TRUE, extendsBelow |-> TRUE, displayMode |-> "separate"])
    IN  IF sales <= 0 THEN [blocks |-> <<>>, heightExtension |-> One]
        ELSE [blocks |->
                IF RLt(Zero, contributionRatio)
                THEN <<salesBlock, variableBlock, contributionBlock, fixedBlock,
                       IF ~isLoss THEN profitBlockOf(cols, labs, in, calculated)
                       ELSE IF lossDisplayMode = "negative-bar" THEN negativeBarLoss
                       ELSE separateLoss>>
                ELSE <<salesBlock, variableBlock, allLossBlockOf(cols, labs, in, calculated)>>,
              heightExtension |-> heightExtension]

\* the template string `BEP: ${this.formatter.format(breakEvenPoint)}` as
\* its parts; the empty string has no parts
bepLabelText(fmt, calculated, bepOptions) ==
    IF Get(bepOptions, "labelContent", "undefined") \in {"value", "both"}
    THEN <<[kind |-> "literal", chars |-> "BEP: "],
           [kind |-> "formatted", chars |-> format(fmt, Val(calculated.breakEvenPoint))]>>
    ELSE <<>>

\* generateAnnotations, "BEP line annotation": the annotation pushed
bepAnnotationOf(fmt, in, calculated, opts) ==
    LET bepRatio == RDiv(Val(calculated.breakEvenPoint), RInt(in.sales))
        bepOptions == Get(opts, "bepOptions", DEFAULT_DISPLAY_OPTIONS.bepOptions)
        lineStyle == Get(bepOptions, "lineStyle", EmptyObject)
    IN  [type |-> "line", orientation |-> "vertical",
         position |-> [x |-> bepRatio, y |-> Zero],
         text |-> IF Get(bepOptions, "showLabel", FALSE)
                  THEN [defined |-> TRUE,
                        parts |-> bepLabelText(fmt, calculated, bepOptions)]
                  ELSE [defined |-> FALSE, parts |-> <<>>],
         style |-> [strokeWidth |-> Get(lineStyle, "strokeWidth", 2),
                    strokeDasharray |-> Get(lineStyle, "dashArray", "5,5"),
                    strokeColor |-> Get(lineStyle, "color", "#E74C3C")],
         meta |-> [labelPosition |-> Get(bepOptions, "labelPosition", "top")]]

\* Mutant: the annotation is pushed whenever there is a break-even point,
\* without looking at showBEPLine
generateAnnotations_IgnoresShowBEPLine(fmt, in, calculated, opts) ==
    IF ~calculated.breakEvenPoint.null
    THEN <<bepAnnotationOf(fmt, in, calculated, opts)>>
    ELSE <<>>

generateAnnotations(fmt, in, calculated, opts) ==
    IF Get(opts, "showBEPLine", FALSE) /\ ~calculated.breakEvenPoint.null
    THEN <<bepAnnotationOf(fmt, in, calculated, opts)>>
    ELSE <<>>

\* the fields of a TreemapLayoutEngine instance
Engine(cols, labs, fmt) == [colors |-> cols, labels |-> labs, formatter |-> fmt]

\* constructor(displayOptions?)
NewEngine(displayOptions) ==
    Engine(resolveColors(displayOptions),
           getLabels(Get(displayOptions, "locale", "ja-JP")),
           fromDisplayOptions(displayOptions))

\* Mutant: the fields are left as the constructor or the last call set them
UpdateInternalState_Skipped(engine, displayOptions) == engine

\* generateLayout, "Update internal state": the fields after the update
UpdateInternalState(engine, displayOptions) ==
    Engine(resolveColors(displayOptions),
           getLabels(Get(displayOptions, "locale", "ja-JP")),
           fromDisplayOptions(displayOptions))

\* generateLayout: the engine it leaves and the output it returns
generateLayout(engine, in, calculated, opts) ==
    LET displayOptions == mergeOptions(opts)
        this == UpdateInternalState(engine, displayOptions)
        gb == generateBlocks(this.colors, this.labels, in, calculated, displayOptions)
    IN  [engine |-> this,
         output |->
            [blocks |-> gb.blocks,
             annotations |-> generateAnnotations(this.formatter, in, calculated, displayOptions),
             referenceWidth |-> 800,
             referenceHeight |-> 400,
             meta |-> [hasLoss |-> calculated.operatingProfit < 0,
                       hasBEP |-> ~calculated.breakEvenPoint.null,
                       salesValue |-> in.sales,
                       heightExtension |-> gb.heightExtension]]]

----------------------------------------------------------------------------
(* LayoutEngine (packages/core/src/layout/LayoutEngine.ts), the engine of   *)
(* the bar chart.  An instance is its three fields; a method that assigns   *)
(* them returns the instance it leaves.  Amounts are whole numbers.  A      *)
(* label built by a template string is the label and its suffix.            *)

LayoutEngine_resolveColors(opts) ==
    LET scheme == IF "colorScheme" \in DOMAIN opts /\ opts.colorScheme \in DOMAIN COLOR_SCHEMES
                  THEN COLOR_SCHEMES[opts.colorScheme].colors
                  ELSE DEFAULT_COLORS
    IN  IF "customColors" \in DOMAIN opts
        THEN Spread(scheme, opts.customColors)
        ELSE scheme

LayoutEngine_mergeOptions(opts) == Spread(DEFAULT_DISPLAY_OPTIONS, opts)

\* constructor(displayOptions?)
NewLayoutEngine(displayOptions) ==
    [colors |-> LayoutEngine_resolveColors(displayOptions),
     labels |-> getLabels(Get(displayOptions, "locale", "ja-JP")),
     formatter |-> fromDisplayOptions(displayOptions)]

\* ValueFormatter.formatPercentage(ratio): `${(ratio * 100).toFixed(1)}%`, as
\* the number of tenths of a percent, rounded half away from zero; '-' for null
formatPercentage(ratio) ==
    IF ratio.null THEN [dash |-> TRUE, tenths |-> 0]
    ELSE [dash |-> FALSE,
          tenths |-> IF ratio.n >= 0
                     THEN (2000 * ratio.n + ratio.d) \div (2 * ratio.d)
                     ELSE -((2000 * (-ratio.n) + ratio.d) \div (2 * ratio.d))]

getTextPosition(segmentValue, totalValue) ==
    IF totalValue = 0 THEN "outside"
    ELSE IF RLt(R(Abs(segmentValue), totalValue), R(1, 10)) THEN "outside"
    ELSE IF RLt(R(Abs(segmentValue), totalValue), R(2, 10)) THEN "center"
    ELSE "inside"

createSegment(id, type, label, value, start, width, color, textPosition, isCalculated, sales) ==
    [id |-> id, type |-> type, label |-> label, labelSuffix |-> "",
     value |-> value, start |-> start,
     width |-> IF width > 0 THEN width ELSE 0,
     color |-> color, textPosition |-> textPosition, isCalculated |-> isCalculated,
     percentage |-> IF sales > 0 THEN R(value, sales) ELSE Zero,
     meta |-> [direction |-> "undefined", height |-> 0, isSeparate |-> FALSE]]

createLossSegment(this, loss, position, sales, mode) ==
    CASE mode = "downward" ->
            [createSegment("loss", "loss", this.labels.loss, loss, position, 0,
                           this.colors.loss, "outside", TRUE, sales)
                EXCEPT !.meta = [direction |-> "downward", height |-> Abs(loss),
                                 isSeparate |-> FALSE]]
      [] mode = "separate" ->
            [createSegment("loss", "loss", this.labels.loss, Abs(loss), 0, Abs(loss),
                           this.colors.loss, "center", TRUE, sales)
                EXCEPT !.meta = [direction |-> "undefined", height |-> 0,
                                 isSeparate |-> TRUE]]
      [] OTHER ->
            createSegment("loss", "loss", this.labels.loss, loss, position, Abs(loss),
                          this.colors.loss, getTextPosition(Abs(loss), sales), TRUE, sales)

\* generateSegments, "Row 2" after the variable costs segment
BreakdownSegments(this, in, calculated, lossDisplayMode) ==
    IF calculated.contributionMargin > 0
    THEN <<createSegment("contribution", "contribution", this.labels.contribution,
                         calculated.contributionMargin, in.variableCosts,
                         calculated.contributionMargin, this.colors.contribution,
                         "center", TRUE, in.sales),
           createSegment("fixed", "fixed", this.labels.fixed, in.fixedCosts,
                         in.variableCosts, in.fixedCosts, this.colors.fixed,
                         getTextPosition(in.fixedCosts, calculated.contributionMargin),
                         FALSE, in.sales),
           IF calculated.operatingProfit >= 0
           THEN createSegment("profit", "profit", this.labels.profit,
                              calculated.operatingProfit,
                              in.variableCosts + in.fixedCosts,
                              calculated.operatingProfit, this.colors.profit,
                              getTextPosition(calculated.operatingProfit, in.sales),
                              TRUE, in.sales)
           ELSE createLossSegment(this, calculated.operatingProfit,
                                  in.variableCosts + in.fixedCosts, in.sales,
                                  lossDisplayMode)>>
    ELSE IF calculated.contributionMargin = 0
    THEN <<createLossSegment(this, -in.fixedCosts, in.variableCosts, in.sales,
                             lossDisplayMode)>>
    ELSE <<[createSegment("contribution-negative", "contribution",
                          this.labels.contribution,
                          calculated.contributionMargin, in.variableCosts, 0,
                          this.colors.loss, "outside", TRUE, in.sales)
                EXCEPT !.labelSuffix = "ja:(minus)"]>>

\* generateSegments(input, calculated, options?)
LayoutEngine_generateSegments(this, in, calculated, opts) ==
    <<createSegment("sales", "sales", this.labels.sales, in.sales, 0, in.sales,
                    this.colors.sales, "inside", FALSE, in.sales),
      createSegment("variable", "variable", this.labels.variable, in.variableCosts, 0,
                    in.variableCosts, this.colors.variable,
                    getTextPosition(in.variableCosts, in.sales), FALSE, in.sales)>>
        \o BreakdownSegments(this, in, calculated,
                             LayoutEngine_mergeOptions(opts).lossDisplayMode)

\* createBEPAnnotation(calculated, bepOptions); labelText as its parts
createBEPAnnotation(this, calculated, bepOptions) ==
    LET labelContent == Get(bepOptions, "labelContent", "undefined")
        labelText ==
            (IF labelContent \in {"value", "both"}
             THEN <<[kind |-> "label", chars |-> this.labels.breakEvenPoint],
                    [kind |-> "formatted",
                     chars |-> format(this.formatter, Val(calculated.breakEvenPoint))]>>
             ELSE <<>>)
                \o (IF labelContent = "ratio"
                    THEN <<[kind |-> "label", chars |-> this.labels.breakEvenPoint],
                           [kind |-> "percentage",
                            chars |-> formatPercentage(calculated.breakEvenRatio)]>>
                    ELSE IF labelContent = "both"
                    THEN <<[kind |-> "percentage",
                            chars |-> formatPercentage(calculated.breakEvenRatio)]>>
                    ELSE <<>>)
    IN  [type |-> "line", orientation |-> "vertical",
         position |-> [x |-> Val(calculated.breakEvenPoint), y |-> Zero],
         size |-> [width |-> Zero, height |-> Zero],
         text |-> IF Get(bepOptions, "showLabel", FALSE)
                  THEN [defined |-> TRUE, parts |-> labelText]
                  ELSE [defined |-> FALSE, parts |-> <<>>],
         style |-> [strokeWidth |-> Get(Get(bepOptions, "lineStyle", EmptyObject),
                                        "strokeWidth", 2),
                    strokeDasharray |-> Get(Get(bepOptions, "lineStyle", EmptyObject),
                                            "dashArray", "5,5"),
                    strokeColor |-> Get(Get(bepOptions, "lineStyle", EmptyObject),
                                        "color", "#666666")],
         meta |-> [labelPosition |-> Get(bepOptions, "labelPosition", "top")]]

createContributionEllipseAnnotation(this, segment, calculated) ==
    [type |-> "ellipse", orientation |-> "undefined",
     position |-> [x |-> RAdd(RInt(segment.start), R(segment.width, 2)),
                   y |-> R(1, 2)],
     size |-> [width |-> RMul(RInt(segment.width), R(8, 10)), height |-> R(6, 10)],
     text |-> [defined |-> TRUE,
               parts |-> <<[kind |-> "label",
                            chars |-> this.labels.contributionMarginRatio],
                           [kind |-> "percentage",
                            chars |-> formatPercentage(
                                        Some(calculated.contributionMarginRatio))]>>],
     style |-> [strokeWidth |-> 2, strokeDasharray |-> "undefined",
                strokeColor |-> this.colors.contribution],
     meta |-> [labelPosition |-> "undefined"]]

\* segments.find(s => s.type === 'contribution'): its index, 0 when none
RECURSIVE FindContribution(_, _)
FindContribution(segments, k) ==
    IF k > Len(segments) THEN 0
    ELSE IF segments[k].type = "contribution" THEN k
    ELSE FindContribution(segments, k + 1)

\* generateAnnotations(segments, calculated, options?)
LayoutEngine_generateAnnotations(this, segments, calculated, opts) ==
    (IF LayoutEngine_mergeOptions(opts).showBEPLine /\ ~calculated.breakEvenPoint.null
     THEN <<createBEPAnnotation(this, calculated,
                                LayoutEngine_mergeOptions(opts).bepOptions)>>
     ELSE <<>>)
        \o (IF LayoutEngine_mergeOptions(opts).showContributionEllipse
                  /\ FindContribution(segments, 1) > 0
                  /\ segments[FindContribution(segments, 1)].width > 0
            THEN <<createContributionEllipseAnnotation(this,
                        segments[FindContribution(segments, 1)], calculated)>>
            ELSE <<>>)

\* calculateTotalWidth(segments), the reduce from the k-th segment on
RECURSIVE calculateTotalWidth(_, _, _)
calculateTotalWidth(segments, k, max) ==
    IF k > Len(segments) THEN max
    ELSE calculateTotalWidth(segments, k + 1,
            IF segments[k].start + segments[k].width > max
            THEN segments[k].start + segments[k].width ELSE max)

\* generateLayout, the return statement
LayoutOutputOf(in, calculated, segments, annotations, totalWidth) ==
    [segments |-> segments,
     annotations |-> annotations,
     totalWidth |-> IF in.sales > totalWidth THEN in.sales ELSE totalWidth,
     rowCount |-> 2,
     meta |-> [hasLoss |-> calculated.operatingProfit < 0,
               hasBEP |-> ~calculated.breakEvenPoint.null,
               maxValue |-> IF in.sales > totalWidth THEN in.sales ELSE totalWidth]]

\* generateLayout from generateAnnotations on
LayoutWith(this, in, calculated, displayOptions, segments) ==
    [engine |-> this,
     output |-> LayoutOutputOf(in, calculated, segments,
                    LayoutEngine_generateAnnotations(this, segments, calculated,
                                                     displayOptions),
                    calculateTotalWidth(segments, 1, 0))]

\* generateLayout, "Update internal state if options provided": the three
\* assignments, which read nothing of the instance
LayoutEngine_UpdateInternalState(this, displayOptions) ==
    [colors |-> LayoutEngine_resolveColors(displayOptions),
     labels |-> getLabels(displayOptions.locale),
     formatter |-> fromDisplayOptions(displayOptions)]

\* generateLayout(input, calculated, options?): the instance it leaves and
\* the output it returns
LayoutEngine_generateLayout(this, in, calculated, opts) ==
    LayoutWith(
        LayoutEngine_UpdateInternalState(this, LayoutEngine_mergeOptions(opts)),
        in, calculated, LayoutEngine_mergeOptions(opts),
        LayoutEngine_generateSegments(
            LayoutEngine_UpdateInternalState(this, LayoutEngine_mergeOptions(opts)),
            in, calculated, LayoutEngine_mergeOptions(opts)))

----------------------------------------------------------------------------
(* TreemapRenderer (packages/chartjs/src/TreemapRenderer.ts) *)

sortOrder == <<"sales", "variable", "contribution", "fixed", "profit", "loss">>

\* [...blocks].sort by sortOrder index; Array.prototype.sort is stable
RECURSIVE SortedFrom(_, _)
SortedFrom(blocks, k) ==
    IF k > Len(sortOrder) THEN <<>>
    ELSE SelectSeq(blocks, LAMBDA b : b.type = sortOrder[k]) \o SortedFrom(blocks, k + 1)

\* renderBlock: the rectangle given to fillRect and the block it paints, or
\* nothing for a block with no visible area
renderBlock(block, baseX, baseY, totalWidth, totalHeight) ==
    LET x == RAdd(RInt(baseX), RMul(block.x, RInt(totalWidth)))
        y == RAdd(RInt(baseY), RMul(block.y, RInt(totalHeight)))
        width == RMul(block.width, RInt(totalWidth))
        height == RMul(block.height, RInt(totalHeight))
    IN  IF RLt(width, One) \/ RLt(height, One) THEN <<>>
        ELSE <<[block |-> block, x |-> x, y |-> y, width |-> width,
                height |-> height, fillStyle |-> block.color]>>

RECURSIVE RenderEach(_, _, _, _, _)
RenderEach(blocks, left, top, chartWidth, baseChartHeight) ==
    IF blocks = <<>> THEN <<>>
    ELSE renderBlock(Head(blocks), left, top, chartWidth, baseChartHeight)
         \o RenderEach(Tail(blocks), left, top, chartWidth, baseChartHeight)

\* renderBlocks(blocks, _layoutMeta)
renderBlocks(area, blocks, layoutMeta) ==
    LET chartWidth == area.right - area.left
        baseChartHeight == area.bottom - area.top
    IN  RenderEach(SortedFrom(blocks, 1), area.left, area.top, chartWidth, baseChartHeight)

----------------------------------------------------------------------------
(* CVPValidator (packages/core/src/validator/CVPValidator.ts).  A field of  *)
(* the input is any JavaScript value: undefined (also an absent key), null, *)
(* a string, NaN, +-Infinity or a finite number.  A finite number is held   *)
(* as hi * 2^53 + lo with |lo| far below 2^53, so that values around        *)
(* Number.MAX_SAFE_INTEGER = 2^53 - 1 can be compared; the fields the model *)
(* draws are whole numbers, and sums and differences are exact.  An error   *)
(* or a warning is held as its code and its field.                          *)

\* a finite number; the other values are [kind |-> "undefined"], "null",
\* "NaN", "Infinity" with its sign, and "string" with its text
Num(hi, lo) == [kind |-> "number", hi |-> hi, lo |-> lo]

\* a CVPInput whose three fields are the numbers of `in`
CVPInputOf(in) ==
    [sales |-> Num(0, in.sales), variableCosts |-> Num(0, in.variableCosts),
     fixedCosts |-> Num(0, in.fixedCosts)]

WSub(a, b) == Num(a.hi - b.hi, a.lo - b.lo)
WScale(k, a) == Num(k * a.hi, k * a.lo)
WPositive(a) == a.hi > 0 \/ (a.hi = 0 /\ a.lo > 0)
WNegative(a) == a.hi < 0 \/ (a.hi = 0 /\ a.lo < 0)
WLt(a, b) == WNegative(WSub(a, b))

\* VALIDATION_THRESHOLDS
MAX_VALUE == Num(1, -1)
ABNORMAL_RATIO_THRESHOLD == R(3, 2)
LARGE_LOSS_THRESHOLD == R(1, 2)

\* isFinite(v), which converts a string to a number first
isFinite(v) ==
    CASE v.kind = "number" -> TRUE
      [] v.kind = "string" -> v.text = "5"
      [] OTHER -> FALSE

ErrorIf(cond, code, field) ==
    IF cond THEN <<[code |-> code, field |-> field]>> ELSE <<>>

\* `input.sales === undefined || input.sales === null`, ...; a key the
\* object does not have reads as undefined
validateRequiredFields(x) ==
    LET Missing(key) == key \notin DOMAIN x \/ x[key].kind \in {"undefined", "null"}
    IN  ErrorIf(Missing("sales"), "MISSING_FIELD", "sales")
        \o ErrorIf(Missing("variableCosts"), "MISSING_FIELD", "variableCosts")
        \o ErrorIf(Missing("fixedCosts"), "MISSING_FIELD", "fixedCosts")

\* `typeof input.sales !== 'number' || isNaN(input.sales)`, ..., then the
\* isFinite test
validateTypes(x) ==
    ErrorIf(x.sales.kind \in {"string", "NaN"}, "INVALID_TYPE", "sales")
        \o ErrorIf(x.variableCosts.kind \in {"string", "NaN"},
                   "INVALID_TYPE", "variableCosts")
        \o ErrorIf(x.fixedCosts.kind \in {"string", "NaN"}, "INVALID_TYPE", "fixedCosts")
        \o ErrorIf(~isFinite(x.sales) \/ ~isFinite(x.variableCosts)
                       \/ ~isFinite(x.fixedCosts),
                   "INVALID_VALUE", "input")

\* Mutant: sales = 0 passes the range check
validateValueRanges_ZeroSalesPasses(x) ==
    ErrorIf(WNegative(x.sales), "ZERO_SALES", "sales")
        \o ErrorIf(WNegative(x.variableCosts), "NEGATIVE_VARIABLE_COSTS", "variableCosts")
        \o ErrorIf(WNegative(x.fixedCosts), "NEGATIVE_FIXED_COSTS", "fixedCosts")
        \o ErrorIf(WLt(MAX_VALUE, x.sales) \/ WLt(MAX_VALUE, x.variableCosts)
                       \/ WLt(MAX_VALUE, x.fixedCosts),
                   "VALUE_TOO_LARGE", "input")

validateValueRanges(x) ==
    ErrorIf(~WPositive(x.sales), "ZERO_SALES", "sales")
        \o ErrorIf(WNegative(x.variableCosts), "NEGATIVE_VARIABLE_COSTS", "variableCosts")
        \o ErrorIf(WNegative(x.fixedCosts), "NEGATIVE_FIXED_COSTS", "fixedCosts")
        \o ErrorIf(WLt(MAX_VALUE, x.sales) \/ WLt(MAX_VALUE, x.variableCosts)
                       \/ WLt(MAX_VALUE, x.fixedCosts),
                   "VALUE_TOO_LARGE", "input")

WarningIf(cond, code, affectedField) ==
    IF cond THEN <<[code |-> code, affectedField |-> affectedField]>> ELSE <<>>

\* the ratios are quotients by input.sales: contributionMarginRatio is 0 for
\* sales <= 0, and Math.abs(operatingProfit) / sales is Infinity for sales = 0
validateBusinessRules(x) ==
    LET contributionMargin == WSub(x.sales, x.variableCosts)
        operatingProfit == WSub(contributionMargin, x.fixedCosts)
        limit == RAdd(RSub(RInt(0), ABNORMAL_RATIO_THRESHOLD), RInt(1))
        LossRatioIsLarge ==
            IF WPositive(x.sales)
            THEN WLt(WScale(LARGE_LOSS_THRESHOLD.n, x.sales),
                     WScale(LARGE_LOSS_THRESHOLD.d,
                            IF WNegative(operatingProfit)
                            THEN WScale(-1, operatingProfit) ELSE operatingProfit))
            ELSE ~WNegative(x.sales)
        RatioIsAbnormal ==
            IF WPositive(x.sales)
            THEN WLt(WScale(limit.d, contributionMargin), WScale(limit.n, x.sales))
            ELSE RLt(RInt(0), limit)
    IN  WarningIf(~WLt(x.variableCosts, x.sales), "VARIABLE_EXCEEDS_SALES", "variableCosts")
        \o WarningIf(contributionMargin.hi = 0
                        /\ RLt(RAbs(RInt(contributionMargin.lo)), PRECISION_EPSILON),
                     "ZERO_CONTRIBUTION_MARGIN", "variableCosts")
        \o WarningIf(contributionMargin.hi < 0
                        \/ (contributionMargin.hi = 0
                            /\ RLt(RInt(contributionMargin.lo),
                                   RMul(RInt(-1), PRECISION_EPSILON))),
                     "NEGATIVE_CONTRIBUTION_MARGIN", "variableCosts")
        \o WarningIf(WNegative(operatingProfit), "NEGATIVE_PROFIT", "operatingProfit")
        \o WarningIf(WNegative(operatingProfit)
                        /\ LossRatioIsLarge,
                     "LARGE_LOSS", "operatingProfit")
        \o WarningIf(x.fixedCosts = Num(0, 0), "ZERO_FIXED_COSTS", "fixedCosts")
        \o WarningIf(RatioIsAbnormal,
                     "ABNORMAL_RATIO", "variableCosts")

\* Object.values(breakdown).reduce((sum, val) => sum + (val ?? 0), 0)
RECURSIVE BreakdownTotal(_)
BreakdownTotal(values) ==
    IF Len(values) = 0 THEN 0 ELSE Head(values) + BreakdownTotal(Tail(values))

\* diff > PRECISION_EPSILON && diff > total * 0.01
BreakdownDiffers(breakdown, total) ==
    LET difference == WSub(Num(0, BreakdownTotal(breakdown)), total)
        diff == IF WNegative(difference) THEN WScale(-1, difference) ELSE difference
    IN  /\ diff.hi > 0 \/ (diff.hi = 0 /\ RLt(PRECISION_EPSILON, RInt(diff.lo)))
        /\ WLt(total, WScale(100, diff))

\* a breakdown object is truthy; an absent key is not
validateBreakdownConsistency(x) ==
    WarningIf("variableCostsBreakdown" \in DOMAIN x
                 /\ BreakdownDiffers(x.variableCostsBreakdown, x.variableCosts),
              "ABNORMAL_RATIO", "variableCostsBreakdown")
        \o WarningIf("fixedCostsBreakdown" \in DOMAIN x
                        /\ BreakdownDiffers(x.fixedCostsBreakdown, x.fixedCosts),
                     "ABNORMAL_RATIO", "fixedCostsBreakdown")

\* validate(input): the two early returns, then the range errors and the
\* warnings
validate(x) ==
    IF Len(validateRequiredFields(x)) > 0
    THEN [isValid |-> FALSE, errors |-> validateRequiredFields(x), warnings |-> <<>>]
    ELSE IF Len(validateTypes(x)) > 0
    THEN [isValid |-> FALSE, errors |-> validateTypes(x), warnings |-> <<>>]
    ELSE [isValid |-> Len(validateValueRanges(x)) = 0,
          errors |-> validateValueRanges(x),
          warnings |-> validateBusinessRules(x)
             \o (IF "variableCostsBreakdown" \in DOMAIN x
                     \/ "fixedCostsBreakdown" \in DOMAIN x
                 THEN validateBreakdownConsistency(x) ELSE <<>>)]

\* CVPCalculator.calculateResult
calculateResult(in) ==
    LET calculated == calculate(in)
    IN  [input |-> in, calculated |-> calculated,
         isProfit |-> calculated.operatingProfit >= 0,
         isProfitable |-> calculated.operatingProfit > 0]

----------------------------------------------------------------------------
(* The Chart.js plugins: ContributionMarginTreemapPlugin                    *)
(* (packages/chartjs/src/treemapPlugin.ts) and ContributionMarginPlugin,    *)
(* the bar plugin.  options.input is held as the array the code normalises  *)
(* it to (a single CVPInput is the one-element array); an absent key is     *)
(* undefined.  Of the bar plugin's cache the results and options are        *)
(* modelled; its segments and annotations come from LayoutEngine for the    *)
(* same inputs.                                                             *)

\* undefined, and the null the process functions return
Undefined == [defined |-> FALSE]

\* processTreemapData, the body of the for loop for a valid input: the
\* accumulators after it
TreemapAccumulated(acc, inputData, result, layoutResult) ==
    [layoutEngine |-> layoutResult.engine,
     results |-> Append(acc.results, result),
     allBlocks |-> acc.allBlocks \o layoutResult.output.blocks,
     allAnnotations |-> acc.allAnnotations \o layoutResult.output.annotations,
     salesValue |-> inputData.sales,
     layoutMeta |-> layoutResult.output.meta]

\* calculator.calculateResult(inputData), then layoutEngine.generateLayout
TreemapLayoutOf(layoutEngine, result, display) ==
    generateLayout(layoutEngine, result.input, result.calculated, display)

\* Mutant: the loop stops at the first input that fails validation
RECURSIVE ProcessTreemapInputs_StopAtInvalid(_, _, _, _)
ProcessTreemapInputs_StopAtInvalid(inputs, k, display, acc) ==
    IF k > Len(inputs) THEN acc
    ELSE IF ~validate(CVPInputOf(inputs[k])).isValid THEN acc
         ELSE ProcessTreemapInputs_StopAtInvalid(inputs, k + 1, display,
                TreemapAccumulated(acc, inputs[k], calculateResult(inputs[k]),
                    TreemapLayoutOf(acc.layoutEngine, calculateResult(inputs[k]),
                                    display)))

\* processTreemapData, the for loop from the k-th input on
RECURSIVE ProcessTreemapInputs(_, _, _, _)
ProcessTreemapInputs(inputs, k, display, acc) ==
    IF k > Len(inputs) THEN acc
    ELSE IF ~validate(CVPInputOf(inputs[k])).isValid
         THEN ProcessTreemapInputs(inputs, k + 1, display, acc)
         ELSE ProcessTreemapInputs(inputs, k + 1, display,
                TreemapAccumulated(acc, inputs[k], calculateResult(inputs[k]),
                    TreemapLayoutOf(acc.layoutEngine, calculateResult(inputs[k]),
                                    display)))

\* processTreemapData, the return statements
TreemapData(acc, opts) ==
    IF Len(acc.results) = 0 THEN Undefined
    ELSE [defined |-> TRUE,
          blocks |-> acc.allBlocks,
          annotations |-> acc.allAnnotations,
          results |-> acc.results,
          options |-> Get(opts, "display", DEFAULT_DISPLAY_OPTIONS),
          salesValue |-> acc.salesValue,
          layoutMeta |-> acc.layoutMeta]

processTreemapData(opts) ==
    IF "input" \notin DOMAIN opts THEN Undefined
    ELSE TreemapData(
            ProcessTreemapInputs(opts.input, 1, Get(opts, "display", EmptyObject),
                [layoutEngine |-> NewEngine(Get(opts, "display", EmptyObject)),
                 results |-> <<>>, allBlocks |-> <<>>, allAnnotations |-> <<>>,
                 salesValue |-> 0,
                 layoutMeta |-> [hasLoss |-> FALSE, hasBEP |-> FALSE,
                                 salesValue |-> 0, heightExtension |-> One]]),
            opts)

\* processCVPData, the for loop from the k-th input on: the results
RECURSIVE ProcessCVPInputs(_, _)
ProcessCVPInputs(inputs, k) ==
    IF k > Len(inputs) THEN <<>>
    ELSE IF ~validate(CVPInputOf(inputs[k])).isValid THEN ProcessCVPInputs(inputs, k + 1)
    ELSE <<calculateResult(inputs[k])>> \o ProcessCVPInputs(inputs, k + 1)

\* processCVPData, the return statements
CVPData(results, opts) ==
    IF Len(results) = 0 THEN Undefined
    ELSE [defined |-> TRUE, results |-> results,
          options |-> Get(opts, "display", DEFAULT_DISPLAY_OPTIONS)]

processCVPData(opts) ==
    IF "input" \notin DOMAIN opts THEN Undefined
    ELSE CVPData(ProcessCVPInputs(opts.input, 1), opts)

\* the options object Chart.js hands to a hook: the chart's options for the
\* plugin, or the plugin defaults when the chart has none
HookOptions(c) == IF c.pluginOptions.defined THEN c.pluginOptions.o ELSE EmptyObject

\* `if (cvpData) { chart.$cvpTreemap = cvpData }`
WithTreemapData(c, cvpData) ==
    IF cvpData.defined THEN [c EXCEPT !.cvpTreemap = cvpData] ELSE c

\* ContributionMarginTreemapPlugin.beforeInit
TreemapBeforeInit(c) ==
    IF "input" \notin DOMAIN HookOptions(c) THEN c
    ELSE WithTreemapData(c, processTreemapData(HookOptions(c)))

\* beforeUpdate, "Configure chart for treemap display"
TreemapConfigured(c) ==
    IF c.cvpTreemap.defined
    THEN [c EXCEPT !.scales = [display |-> FALSE, max |-> Null], !.legend = FALSE]
    ELSE c

\* Mutant: beforeUpdate configures the chart from the cache and never
\* rebuilds a missing cache
TreemapBeforeUpdate_NoRebuild(c) == TreemapConfigured(c)

\* Mutant: beforeUpdate rebuilds the cache from options.input on every update
TreemapBeforeUpdate_AlwaysRebuild(c) ==
    TreemapConfigured(
        IF "input" \in DOMAIN HookOptions(c)
        THEN WithTreemapData(c, processTreemapData(HookOptions(c)))
        ELSE c)

\* ContributionMarginTreemapPlugin.beforeUpdate
TreemapBeforeUpdate(c) ==
    TreemapConfigured(
        IF ~c.cvpTreemap.defined /\ "input" \in DOMAIN HookOptions(c)
        THEN WithTreemapData(c, processTreemapData(HookOptions(c)))
        ELSE c)

\* `if (cvpData) { chart.$cvp = cvpData }`
WithCVPData(c, cvpData) ==
    IF cvpData.defined THEN [c EXCEPT !.cvp = cvpData] ELSE c

\* ContributionMarginPlugin.beforeInit
BarBeforeInit(c) ==
    IF "input" \notin DOMAIN HookOptions(c) THEN c
    ELSE WithCVPData(c, processCVPData(HookOptions(c)))

\* beforeUpdate, "Configure chart for horizontal bar display"; the tick step
\* and the tick callback of the x scale are left out
BarConfigured(c, maxValue) ==
    [c EXCEPT !.indexAxis = "y",
              !.scales = [display |-> TRUE,
                          max |-> IF maxValue > 0
                                  THEN Some(RMul(RInt(maxValue), R(11, 10)))
                                  ELSE Null],
              !.legend = FALSE]

\* beforeUpdate after the cache test
BarConfiguredFromCache(c) ==
    IF ~c.cvp.defined THEN c ELSE BarConfigured(c, c.cvp.results[1].input.sales)

\* ContributionMarginPlugin.beforeUpdate
BarBeforeUpdate(c) ==
    BarConfiguredFromCache(
        IF ~c.cvp.defined /\ "input" \in DOMAIN HookOptions(c)
        THEN WithCVPData(c, processCVPData(HookOptions(c)))
        ELSE c)

\* the hooks of the plugin the chart carries
BeforeInit(c) ==
    IF c.plugin = "contributionMarginTreemap" THEN TreemapBeforeInit(c)
    ELSE BarBeforeInit(c)

BeforeUpdate(c) ==
    IF c.plugin = "contributionMarginTreemap" THEN TreemapBeforeUpdate(c)
    ELSE BarBeforeUpdate(c)

\* new Chart(ctx, config) up to the first beforeUpdate
NewChart(plugin, pluginOptions) ==
    BeforeUpdate(BeforeInit(
        [plugin |-> plugin, pluginOptions |-> pluginOptions,
         cvpTreemap |-> Undefined, cvp |-> Undefined,
         indexAxis |-> "x", scales |-> [display |-> TRUE, max |-> Null],
         legend |-> TRUE]))

----------------------------------------------------------------------------
(* The inputs the model draws from *)

\* CVPInput: costs are non-negative; sales is expected positive, and the
\* engine is also called with sales <= 0
Inputs == [sales : -1..MaxSales, variableCosts : 0..MaxCost, fixedCosts : 0..MaxCost]

LossDisplayModes == {"negative-bar", "downward", "separate"}

OptionSets ==
    {Spread(Spread(a, b), Spread(c, d)) :
        a \in {EmptyObject} \cup {[lossDisplayMode |-> m] : m \in LossDisplayModes},
        b \in {EmptyObject, [colorScheme |-> "pastel"]},
        c \in {EmptyObject, [customColors |-> [sales |-> "#123456"]]},
        d \in {EmptyObject, [locale |-> "en-US"]}}

ChartAreas ==
    {[left |-> 0, top |-> 0, right |-> 800, bottom |-> 400],
     [left |-> 32, top |-> 16, right |-> 432, bottom |-> 216]}

NoLayout ==
    [blocks |-> <<>>, annotations |-> <<>>, referenceWidth |-> 800,
     referenceHeight |-> 400,
     meta |-> [hasLoss |-> FALSE, hasBEP |-> FALSE, salesValue |-> 0,
               heightExtension |-> One]]

NoArea == [left |-> 0, top |-> 0, right |-> 0, bottom |-> 0]

----------------------------------------------------------------------------
(* Operations *)

\* nothing returned by calculate yet
NoValues == [returned |-> FALSE]

\* calculateBreakEvenPoint not called on its own yet
NoBepCall == [made |-> FALSE]

\* no chart constructed
NoChart == [plugin |-> "none"]

\* no operation on a chart yet
NoCall == [op |-> "none"]


\* new TreemapLayoutEngine(displayOptions)
Construct(displayOptions) ==
    LET e == NewEngine(displayOptions)
    IN  /\ colors' = e.colors
        /\ labels' = e.labels
        /\ formatter' = e.formatter
        /\ calls' = 0
        /\ layout' = NoLayout
        /\ UNCHANGED <<input, options, chartArea, painted>>
        /\ UNCHANGED calculatorVars
        /\ UNCHANGED pluginVars
        /\ UNCHANGED <<candidate, validation>>
        /\ UNCHANGED <<barEngine, barCall>>

\* layout = engine.generateLayout(i, calculator.calculate(i), o)
GenerateLayout(i, o) ==
    /\ calls < MaxCalls
    /\ LET r == generateLayout(Engine(colors, labels, formatter), i, calculate(i), o)
       IN  /\ colors' = r.engine.colors
           /\ labels' = r.engine.labels
           /\ formatter' = r.engine.formatter
           /\ layout' = r.output
    /\ input' = i
    /\ options' = o
    /\ calls' = calls + 1
    /\ UNCHANGED <<chartArea, painted>>
    /\ UNCHANGED calculatorVars
    /\ UNCHANGED pluginVars
    /\ UNCHANGED <<candidate, validation>>
    /\ UNCHANGED <<barEngine, barCall>>

\* new TreemapRenderer(ctx, area, ...).renderBlocks(layout.blocks, layout.meta)
RenderBlocks(area) ==
    /\ calls > 0
    /\ chartArea' = area
    /\ painted' = renderBlocks(area, layout.blocks, layout.meta)
    /\ UNCHANGED <<input, options, colors, labels, formatter, layout, calls>>
    /\ UNCHANGED calculatorVars
    /\ UNCHANGED pluginVars
    /\ UNCHANGED <<candidate, validation>>
    /\ UNCHANGED <<barEngine, barCall>>

InitEngine(displayOptions) ==
    LET e == NewEngine(displayOptions)
    IN  /\ colors = e.colors
        /\ labels = e.labels
        /\ formatter = e.formatter
        /\ calls = 0
        /\ layout = NoLayout
        /\ chartArea = NoArea
        /\ painted = <<>>
        /\ calcValues = NoValues
        /\ bepCall = NoBepCall
        /\ chart = NoChart
        /\ lastCall = NoCall
        /\ drawn = Undefined
        /\ candidate = [none |-> TRUE]
        /\ validation = [returned |-> FALSE]
        /\ barEngine = [constructed |-> FALSE]
        /\ barCall = [op |-> "none"]

\* One caller: a default-constructed engine, one (input, options) pair, the
\* layout generated for it and painted.
Init ==
    /\ input \in Inputs
    /\ options \in OptionSets
    /\ InitEngine(EmptyObject)

Next ==
    \/ GenerateLayout(input, options)
    \/ \E area \in ChartAreas : RenderBlocks(area)

Spec == Init /\ [][Next]_vars

----------------------------------------------------------------------------
(* CVPCalculator on its own: calculator.calculate(input), and               *)
(* calculateBreakEvenPoint with the ratios calculate hands to it, among     *)
(* them ratios at and below PRECISION_EPSILON (calculate reaches 1e-11 with *)
(* sales 1e11 and variableCosts 1e11 - 1, amounts beyond integer inputs of  *)
(* the model)                                                               *)

CalculatorInputs ==
    [sales : -1..MaxSales, variableCosts : -1..MaxCost, fixedCosts : -1..MaxCost]

BepFixedCosts == -1..2

BepRatios ==
    {R(a, b) : a \in -1..2, b \in 1..2}
        \cup {RSci(-1, 1, -11), RSci(1, 1, -11), RSci(1, 1, -10), RSci(2, 1, -10)}

\* calculator.calculate(input)
Calculate ==
    /\ ~calcValues.returned
    /\ calcValues' = [returned |-> TRUE, values |-> calculate(input)]
    /\ UNCHANGED <<input, options, colors, labels, formatter, layout, calls,
                   chartArea, painted, bepCall>>
    /\ UNCHANGED pluginVars
    /\ UNCHANGED <<candidate, validation>>
    /\ UNCHANGED <<barEngine, barCall>>

\* this.calculateBreakEvenPoint(fixedCosts, contributionMarginRatio)
CalculateBreakEvenPoint(fixedCosts, contributionMarginRatio) ==
    /\ ~bepCall.made
    /\ bepCall' = [made |-> TRUE, fixedCosts |-> fixedCosts,
                   contributionMarginRatio |-> contributionMarginRatio,
                   result |-> calculateBreakEvenPoint(fixedCosts, contributionMarginRatio)]
    /\ UNCHANGED <<input, options, colors, labels, formatter, layout, calls,
                   chartArea, painted, calcValues>>
    /\ UNCHANGED pluginVars
    /\ UNCHANGED <<candidate, validation>>
    /\ UNCHANGED <<barEngine, barCall>>

InitCalculator ==
    /\ input \in CalculatorInputs
    /\ options = EmptyObject
    /\ InitEngine(EmptyObject)

NextCalculator ==
    \/ Calculate
    \/ \E f \in BepFixedCosts, r \in BepRatios : CalculateBreakEvenPoint(f, r)

SpecCalculator == InitCalculator /\ [][NextCalculator]_vars

----------------------------------------------------------------------------
(* generateLayout under the break-even display options *)

BEPOptionSets ==
    {[showLabel |-> TRUE, labelContent |-> "value"],
     [showLabel |-> TRUE, labelContent |-> "ratio"],
     [showLabel |-> TRUE, labelContent |-> "both"],
     [showLabel |-> FALSE, labelContent |-> "both"],
     [labelContent |-> "value", labelPosition |-> "bottom"]}

AnnotationOptionSets ==
    {EmptyObject, [showBEPLine |-> TRUE], [showBEPLine |-> FALSE]}
        \cup {[bepOptions |-> b] : b \in BEPOptionSets}
        \cup [showBEPLine : BOOLEAN, bepOptions : BEPOptionSets]

InitAnnotations ==
    /\ input \in Inputs
    /\ options \in AnnotationOptionSets
    /\ InitEngine(EmptyObject)

NextAnnotations == GenerateLayout(input, options)

SpecAnnotations == InitAnnotations /\ [][NextAnnotations]_vars

----------------------------------------------------------------------------
(* A chart carrying one of the two plugins, and its caller: assignments to  *)
(* the plugin options, clearing the cache, chart.update(), the documented   *)
(* update functions (README updateChart, updateCVPChart), and the draws     *)

PluginIds == {"contributionMarginTreemap", "contributionMargin"}

PluginInputs ==
    {[sales |-> 7, variableCosts |-> 4, fixedCosts |-> 2],
     [sales |-> 7, variableCosts |-> 4, fixedCosts |-> 4],
     [sales |-> 5, variableCosts |-> 6, fixedCosts |-> 1],
     [sales |-> 0, variableCosts |-> 0, fixedCosts |-> 1]}

\* chart.options.plugins[id] as the chart was configured: none, without
\* input, or with one input
InitialPluginOptions ==
    {Undefined, [defined |-> TRUE, o |-> EmptyObject]}
        \cup {[defined |-> TRUE, o |-> [input |-> <<i>>]] : i \in PluginInputs}

PluginChartAreas == {[left |-> 0, top |-> 0, right |-> 800, bottom |-> 400]}

\* options.input as the caller reads it back
CurrentInput(c) ==
    IF c.pluginOptions.defined /\ "input" \in DOMAIN c.pluginOptions.o
    THEN c.pluginOptions.o.input ELSE <<>>

\* `if (options) { options.input = newData }`
WithInput(c, newData) ==
    IF c.pluginOptions.defined
    THEN [c EXCEPT !.pluginOptions.o = Spread(@, [input |-> <<newData>>])]
    ELSE c

\* chart.$cvpTreemap = undefined, chart.$cvp = undefined
WithoutCache(c) ==
    IF c.plugin = "contributionMarginTreemap" THEN [c EXCEPT !.cvpTreemap = Undefined]
    ELSE [c EXCEPT !.cvp = Undefined]

\* options.input = newData, by a caller that does nothing else
AssignInput(newData) ==
    /\ chart.pluginOptions.defined
    /\ chart' = WithInput(chart, newData)
    /\ lastCall' = [op |-> "assign", input |-> newData, previous |-> CurrentInput(chart)]
    /\ drawn' = Undefined
    /\ UNCHANGED <<engineVars, chartArea, painted, calculatorVars, candidate, validation, barEngine, barCall>>

\* chart.$cvpTreemap = undefined (chart.$cvp for the bar plugin)
ClearCache ==
    /\ chart' = WithoutCache(chart)
    /\ lastCall' = [op |-> "clear", input |-> CurrentInput(chart),
                    previous |-> CurrentInput(chart)]
    /\ drawn' = Undefined
    /\ UNCHANGED <<engineVars, chartArea, painted, calculatorVars, candidate, validation, barEngine, barCall>>

\* chart.update(): the beforeUpdate hook
ChartUpdate ==
    /\ chart' = BeforeUpdate(chart)
    /\ lastCall' = [op |-> "update", input |-> CurrentInput(chart),
                    previous |-> CurrentInput(chart)]
    /\ drawn' = Undefined
    /\ UNCHANGED <<engineVars, chartArea, painted, calculatorVars, candidate, validation, barEngine, barCall>>

\* README "Dynamic Updates": updateChart(chart, newData)
UpdateChart(newData) ==
    /\ chart.plugin = "contributionMarginTreemap"
    /\ chart' = BeforeUpdate(WithoutCache(WithInput(chart, newData)))
    /\ lastCall' = [op |-> "updateChart", input |-> newData,
                    previous |-> CurrentInput(chart)]
    /\ drawn' = Undefined
    /\ UNCHANGED <<engineVars, chartArea, painted, calculatorVars, candidate, validation, barEngine, barCall>>

\* updateCVPChart(chart, input), display omitted
UpdateCVPChart(newData) ==
    /\ chart.plugin = "contributionMargin"
    /\ chart' = BeforeUpdate(WithoutCache(WithInput(chart, newData)))
    /\ lastCall' = [op |-> "updateCVPChart", input |-> newData,
                    previous |-> CurrentInput(chart)]
    /\ drawn' = Undefined
    /\ UNCHANGED <<engineVars, chartArea, painted, calculatorVars, candidate, validation, barEngine, barCall>>

\* the afterDraw hook of the chart's plugin on a draw over area; metrics are
\* not configured
AfterDraw(area) ==
    /\ IF chart.plugin = "contributionMarginTreemap"
       THEN IF chart.cvpTreemap.defined
            THEN /\ chartArea' = area
                 /\ painted' = renderBlocks(area, chart.cvpTreemap.blocks,
                                            chart.cvpTreemap.layoutMeta)
                 /\ drawn' = [defined |-> TRUE,
                              annotations |-> chart.cvpTreemap.annotations,
                              salesValue |-> chart.cvpTreemap.salesValue,
                              results |-> <<>>]
            ELSE /\ drawn' = [defined |-> TRUE, annotations |-> <<>>, salesValue |-> 0,
                              results |-> <<>>]
                 /\ UNCHANGED <<chartArea, painted>>
       ELSE IF chart.cvp.defined
            THEN /\ drawn' = [defined |-> TRUE, annotations |-> <<>>,
                              salesValue |-> chart.cvp.results[1].input.sales,
                              results |-> chart.cvp.results]
                 /\ UNCHANGED <<chartArea, painted>>
            ELSE /\ drawn' = [defined |-> TRUE, annotations |-> <<>>, salesValue |-> 0,
                              results |-> <<>>]
                 /\ UNCHANGED <<chartArea, painted>>
    /\ UNCHANGED <<engineVars, calculatorVars, chart, lastCall, candidate, validation, barEngine, barCall>>

InitPlugin ==
    /\ input = [sales |-> 0, variableCosts |-> 0, fixedCosts |-> 0]
    /\ options = EmptyObject
    /\ colors = NewEngine(EmptyObject).colors
    /\ labels = NewEngine(EmptyObject).labels
    /\ formatter = NewEngine(EmptyObject).formatter
    /\ calls = 0
    /\ layout = NoLayout
    /\ chartArea = NoArea
    /\ painted = <<>>
    /\ calcValues = NoValues
    /\ bepCall = NoBepCall
    /\ \E plugin \in PluginIds, pluginOptions \in InitialPluginOptions :
        chart = NewChart(plugin, pluginOptions)
    /\ lastCall = [op |-> "new Chart", input |-> <<>>, previous |-> <<>>]
    /\ drawn = Undefined
    /\ candidate = [none |-> TRUE]
    /\ validation = [returned |-> FALSE]
    /\ barEngine = [constructed |-> FALSE]
    /\ barCall = [op |-> "none"]

NextPlugin ==
    \/ \E newData \in PluginInputs : AssignInput(newData)
    \/ ClearCache
    \/ ChartUpdate
    \/ \E newData \in PluginInputs : UpdateChart(newData)
    \/ \E newData \in PluginInputs : UpdateCVPChart(newData)
    \/ \E area \in PluginChartAreas : AfterDraw(area)

SpecPlugin == InitPlugin /\ [][NextPlugin]_vars

----------------------------------------------------------------------------
(* A chart whose caller changes options.input and options.display between   *)
(* chart.update() calls, and clears the cache only now and then             *)

\* options.display = display, by a caller that does nothing else
AssignDisplay(display) ==
    /\ chart.pluginOptions.defined
    /\ chart' = [chart EXCEPT !.pluginOptions.o = Spread(@, [display |-> display])]
    /\ lastCall' = [op |-> "assignDisplay", input |-> CurrentInput(chart),
                    previous |-> CurrentInput(chart)]
    /\ drawn' = Undefined
    /\ UNCHANGED <<engineVars, chartArea, painted, calculatorVars, candidate, validation, barEngine, barCall>>

NextCache ==
    \/ \E newData \in PluginInputs : AssignInput(newData)
    \/ \E display \in {[colorScheme |-> "pastel"], [lossDisplayMode |-> "separate"]} :
        AssignDisplay(display)
    \/ ClearCache
    \/ ChartUpdate
    \/ \E area \in PluginChartAreas : AfterDraw(area)

SpecCache == InitPlugin /\ [][NextCache]_vars

----------------------------------------------------------------------------
(* A treemap chart created with options.input an array of periods           *)
(* (createTreemapChart({ input: [...], display })), then updates, cache     *)
(* clears and draws                                                         *)

MaxPeriods == 3

\* chart.options.plugins.contributionMarginTreemap of createTreemapChartConfig:
\* input as given, display as
\* `{ ...display, showValues: display?.showValues ?? true, ... }`
PeriodOptions(inputs, display) ==
    [defined |-> TRUE,
     o |-> [input |-> inputs,
            display |-> Spread(display,
                               [showValues |-> Get(display, "showValues", TRUE),
                                showLabels |-> Get(display, "showLabels", TRUE),
                                showBEPLine |-> Get(display, "showBEPLine", FALSE)])]]

InitPeriods ==
    /\ input = [sales |-> 0, variableCosts |-> 0, fixedCosts |-> 0]
    /\ options = EmptyObject
    /\ colors = NewEngine(EmptyObject).colors
    /\ labels = NewEngine(EmptyObject).labels
    /\ formatter = NewEngine(EmptyObject).formatter
    /\ calls = 0
    /\ layout = NoLayout
    /\ chartArea = NoArea
    /\ painted = <<>>
    /\ calcValues = NoValues
    /\ bepCall = NoBepCall
    /\ \E inputs \in UNION {[1..n -> PluginInputs] : n \in 0..MaxPeriods},
          display \in {EmptyObject, [lossDisplayMode |-> "separate"],
                       [showBEPLine |-> TRUE]} :
        chart = NewChart("contributionMarginTreemap", PeriodOptions(inputs, display))
    /\ lastCall = [op |-> "new Chart", input |-> <<>>, previous |-> <<>>]
    /\ drawn = Undefined
    /\ candidate = [none |-> TRUE]
    /\ validation = [returned |-> FALSE]
    /\ barEngine = [constructed |-> FALSE]
    /\ barCall = [op |-> "none"]

NextPeriods ==
    \/ ClearCache
    \/ ChartUpdate
    \/ \E area \in PluginChartAreas : AfterDraw(area)

SpecPeriods == InitPeriods /\ [][NextPeriods]_vars

----------------------------------------------------------------------------
(* CVPValidator on its own: validator.validate(candidate) for objects whose *)
(* fields are any JavaScript value, and calculator.calculate on an input    *)
(* that validate accepted (the order the plugins and the callers of the     *)
(* README use).  calculate is run on the accepted inputs whose numbers are  *)
(* within the range of the calculator's arithmetic (hi = 0).                *)

MaxField == 2

FieldValues ==
    {[kind |-> "undefined"], [kind |-> "null"], [kind |-> "NaN"],
     [kind |-> "string", text |-> "abc"], [kind |-> "string", text |-> "5"],
     [kind |-> "Infinity", sign |-> 1], [kind |-> "Infinity", sign |-> -1]}
        \cup {Num(0, k) : k \in -1..MaxField}
        \cup {Num(1, k) : k \in -2..0}

\* validator.validate(candidate)
Validate ==
    /\ ~validation.returned
    /\ validation' = [returned |-> TRUE, result |-> validate(candidate)]
    /\ UNCHANGED <<engineVars, chartArea, painted, calculatorVars, pluginVars,
                   candidate, barEngine, barCall>>

\* `if (validation.isValid) calculator.calculate(input)`
CalculateValidated ==
    /\ validation.returned
    /\ validation.result.isValid
    /\ ~calcValues.returned
    /\ candidate.sales.hi = 0 /\ candidate.variableCosts.hi = 0
    /\ candidate.fixedCosts.hi = 0
    /\ input' = [sales |-> candidate.sales.lo,
                 variableCosts |-> candidate.variableCosts.lo,
                 fixedCosts |-> candidate.fixedCosts.lo]
    /\ calcValues' = [returned |-> TRUE, values |-> calculate(input')]
    /\ UNCHANGED <<options, colors, labels, formatter, layout, calls, chartArea,
                   painted, bepCall, pluginVars, candidate, validation, barEngine, barCall>>

InitValidator ==
    /\ input = [sales |-> 0, variableCosts |-> 0, fixedCosts |-> 0]
    /\ options = EmptyObject
    /\ colors = NewEngine(EmptyObject).colors
    /\ labels = NewEngine(EmptyObject).labels
    /\ formatter = NewEngine(EmptyObject).formatter
    /\ calls = 0
    /\ layout = NoLayout
    /\ chartArea = NoArea
    /\ painted = <<>>
    /\ calcValues = NoValues
    /\ bepCall = NoBepCall
    /\ chart = NoChart
    /\ lastCall = NoCall
    /\ drawn = Undefined
    /\ \E s \in FieldValues, v \in FieldValues, f \in FieldValues,
          b \in {EmptyObject,
                 [variableCostsBreakdown |-> <<1>>],
                 [variableCostsBreakdown |-> <<1, 1>>],
                 [fixedCostsBreakdown |-> <<0, 1>>],
                 [variableCostsBreakdown |-> <<1>>, fixedCostsBreakdown |-> <<2>>]} :
        candidate = Spread([sales |-> s, variableCosts |-> v, fixedCosts |-> f], b)
    /\ validation = [returned |-> FALSE]
    /\ barEngine = [constructed |-> FALSE]
    /\ barCall = [op |-> "none"]

NextValidator ==
    \/ Validate
    \/ CalculateValidated

SpecValidator == InitValidator /\ [][NextValidator]_vars

----------------------------------------------------------------------------
(* A LayoutEngine and its caller: new LayoutEngine(D), or new CVP(input, D) *)
(* which owns one, then generateLayout and generateSegments calls with and  *)
(* without the options argument (an omitted argument is merged like {}).    *)

BarInputs ==
    {[sales |-> 7, variableCosts |-> 4, fixedCosts |-> 2],
     [sales |-> 7, variableCosts |-> 4, fixedCosts |-> 4],
     [sales |-> 5, variableCosts |-> 6, fixedCosts |-> 1],
     [sales |-> 5, variableCosts |-> 5, fixedCosts |-> 0],
     [sales |-> 5, variableCosts |-> 5, fixedCosts |-> 2]}

BarOptionSets ==
    {EmptyObject,
     [colorScheme |-> "pastel"],
     [customColors |-> [sales |-> "#123456"]],
     [locale |-> "en-US"],
     [lossDisplayMode |-> "separate"],
     [lossDisplayMode |-> "downward"],
     [showContributionEllipse |-> TRUE,
      bepOptions |-> [showLabel |-> TRUE, labelContent |-> "both"]]}

Constructed(owner, in, displayOptions) ==
    [constructed |-> TRUE, owner |-> owner, input |-> in,
     displayOptions |-> displayOptions,
     this |-> NewLayoutEngine(displayOptions)]

\* engine = new LayoutEngine(displayOptions)
NewLayoutEngineCall(displayOptions) ==
    /\ barEngine' = Constructed("LayoutEngine",
                                [sales |-> 0, variableCosts |-> 0, fixedCosts |-> 0],
                                displayOptions)
    /\ barCall' = [op |-> "none"]
    /\ UNCHANGED <<engineVars, chartArea, painted, calculatorVars, pluginVars,
                   candidate, validation>>

\* cvp = new CVP(input, displayOptions)
NewCVP(in, displayOptions) ==
    /\ barEngine' = Constructed("CVP", in, displayOptions)
    /\ barCall' = [op |-> "none"]
    /\ UNCHANGED <<engineVars, chartArea, painted, calculatorVars, pluginVars,
                   candidate, validation>>

\* engine.generateLayout(in, calculator.calculate(in), opts)
LayoutEngineGenerateLayout(in, opts) ==
    /\ barEngine.constructed
    /\ barEngine.owner = "LayoutEngine"
    /\ barEngine' = [barEngine EXCEPT !.this =
                        LayoutEngine_generateLayout(barEngine.this, in,
                                                    calculate(in), opts).engine]
    /\ barCall' = [op |-> "generateLayout", input |-> in, options |-> opts,
                   result |-> LayoutEngine_generateLayout(barEngine.this, in,
                                                          calculate(in), opts).output]
    /\ UNCHANGED <<engineVars, chartArea, painted, calculatorVars, pluginVars,
                   candidate, validation>>

\* cvp.generateLayout(opts)
CVPGenerateLayout(opts) ==
    /\ barEngine.constructed
    /\ barEngine.owner = "CVP"
    /\ barEngine' = [barEngine EXCEPT !.this =
                        LayoutEngine_generateLayout(barEngine.this, barEngine.input,
                            calculate(barEngine.input), opts).engine]
    /\ barCall' = [op |-> "generateLayout", input |-> barEngine.input, options |-> opts,
                   result |-> LayoutEngine_generateLayout(barEngine.this,
                                barEngine.input, calculate(barEngine.input),
                                opts).output]
    /\ UNCHANGED <<engineVars, chartArea, painted, calculatorVars, pluginVars,
                   candidate, validation>>

\* engine.generateSegments(in, calculator.calculate(in), opts)
LayoutEngineGenerateSegments(in, opts) ==
    /\ barEngine.constructed
    /\ barEngine.owner = "LayoutEngine"
    /\ barCall' = [op |-> "generateSegments", input |-> in, options |-> opts,
                   result |-> LayoutEngine_generateSegments(barEngine.this, in,
                                                            calculate(in), opts)]
    /\ UNCHANGED <<engineVars, chartArea, painted, calculatorVars, pluginVars,
                   candidate, validation, barEngine>>

InitLayoutEngine ==
    /\ input = [sales |-> 0, variableCosts |-> 0, fixedCosts |-> 0]
    /\ options = EmptyObject
    /\ colors = NewEngine(EmptyObject).colors
    /\ labels = NewEngine(EmptyObject).labels
    /\ formatter = NewEngine(EmptyObject).formatter
    /\ calls = 0
    /\ layout = NoLayout
    /\ chartArea = NoArea
    /\ painted = <<>>
    /\ calcValues = NoValues
    /\ bepCall = NoBepCall
    /\ chart = NoChart
    /\ lastCall = NoCall
    /\ drawn = Undefined
    /\ candidate = [none |-> TRUE]
    /\ validation = [returned |-> FALSE]
    /\ barEngine = Constructed("LayoutEngine",
                               [sales |-> 0, variableCosts |-> 0, fixedCosts |-> 0],
                               EmptyObject)
    /\ barCall = [op |-> "none"]

NextLayoutEngine ==
    \/ \E d \in BarOptionSets : NewLayoutEngineCall(d)
    \/ \E i \in BarInputs, d \in BarOptionSets : NewCVP(i, d)
    \/ \E i \in BarInputs, o \in BarOptionSets : LayoutEngineGenerateLayout(i, o)
    \/ \E o \in BarOptionSets : CVPGenerateLayout(o)
    \/ \E i \in BarInputs, o \in BarOptionSets : LayoutEngineGenerateSegments(i, o)

SpecLayoutEngine == InitLayoutEngine /\ [][NextLayoutEngine]_vars

----------------------------------------------------------------------------
(* Successive calls on one engine, and engines constructed with options *)

HistoryInputs ==
    {[sales |-> 7, variableCosts |-> 4, fixedCosts |-> 2],
     [sales |-> 7, variableCosts |-> 4, fixedCosts |-> 4],
     [sales |-> 7, variableCosts |-> 8, fixedCosts |-> 1],
     [sales |-> 0, variableCosts |-> 0, fixedCosts |-> 1]}

HistoryOptions ==
    {o \in OptionSets : Get(o, "lossDisplayMode", "separate") = "separate"}

InitHistory ==
    /\ input \in HistoryInputs
    /\ options = EmptyObject
    /\ \E c \in HistoryOptions : InitEngine(c)

NextHistory ==
    \/ \E i \in HistoryInputs, o \in HistoryOptions : GenerateLayout(i, o)
    \/ \E c \in HistoryOptions : Construct(c)

SpecHistory == InitHistory /\ [][NextHistory]_vars

----------------------------------------------------------------------------
(* Properties *)

Called == calls > 0

\* calculator.calculate(input) of the last call
calculated == calculate(input)

\* options.lossDisplayMode of the last call, the default when it has none
LossModeArg == Get(options, "lossDisplayMode", DEFAULT_DISPLAY_OPTIONS.lossDisplayMode)

BlocksOfType(t) == {i \in DOMAIN layout.blocks : layout.blocks[i].type = t}

Bottom(b) == RAdd(b.y, b.height)

LossCase == Called /\ input.sales > 0 /\ calculated.operatingProfit < 0

\* C1: in separate mode, with sales > 0 and operatingProfit < 0 (whatever the
\* contribution margin), heightExtension >= lossBlock.y + lossBlock.height.
C1_SeparateExtensionCoversLoss ==
    (LossCase /\ LossModeArg = "separate") =>
        \A i \in BlocksOfType("loss") :
            RLe(Bottom(layout.blocks[i]), layout.meta.heightExtension)

\* C2: in negative-bar mode, with sales > 0 and operatingProfit < 0,
\* heightExtension >= lossBlock.y + lossBlock.height.
C2_NegativeBarExtensionCoversLoss ==
    (LossCase /\ LossModeArg = "negative-bar") =>
        \A i \in BlocksOfType("loss") :
            RLe(Bottom(layout.blocks[i]), layout.meta.heightExtension)

C4_PaintedInsideChartArea ==
    \A k \in DOMAIN painted :
        RLe(Bottom(painted[k].block), layout.meta.heightExtension) =>
            /\ RLe(RInt(chartArea.top), painted[k].y)
            /\ RLe(RAdd(painted[k].y, painted[k].height), RInt(chartArea.bottom))

\* C5: with sales > 0 and non-negative costs, under every lossDisplayMode the
\* type admits, heightExtension >= 1, and heightExtension = 1 only when no
\* block has y + height > 1.
C5_ExtensionOneMeansNoOverflow ==
    (Called /\ input.sales > 0 /\ input.variableCosts >= 0 /\ input.fixedCosts >= 0) =>
        /\ RLe(One, layout.meta.heightExtension)
        /\ layout.meta.heightExtension = One =>
                \A i \in DOMAIN layout.blocks : RLe(Bottom(layout.blocks[i]), One)

\* default palette, then the named scheme's palette, then customColors
LayeredColors(o) ==
    LET named == IF "colorScheme" \in DOMAIN o
                 THEN Spread(DEFAULT_COLORS, COLOR_SCHEMES[o.colorScheme].colors)
                 ELSE DEFAULT_COLORS
    IN  Spread(named, Get(o, "customColors", EmptyObject))

\* C6: block colors are the default palette overlaid by the palette of
\* options.colorScheme overlaid by options.customColors: with 'pastel' and no
\* customColors every block has its pastel color, and with 'pastel' and
\* customColors {sales: c} the sales block has c and the others their pastel
\* color.
C6_ColorsAreLayered ==
    Called =>
        \A i \in DOMAIN layout.blocks :
            layout.blocks[i].color = LayeredColors(options)[layout.blocks[i].type]

\* C7: generateLayout is history-independent: whatever options the engine
\* was constructed with and whatever calls came before, the output of a call
\* is the output of the first call on a freshly constructed engine with the
\* same arguments.
C7_HistoryIndependent ==
    Called =>
        \A c \in HistoryOptions :
            layout = generateLayout(NewEngine(c), input, calculated, options).output

C7_Witness ==
    /\ calls = MaxCalls
    /\ input.sales > 0
    /\ "colorScheme" \in DOMAIN options
    /\ "customColors" \in DOMAIN options
    /\ "locale" \notin DOMAIN options
    /\ Len(layout.annotations) = 1
    /\ Len(layout.blocks) = 5

\* C8: with sales > 0 and contributionMargin <= 0 there is no contribution,
\* fixed or profit block and exactly one loss block, at x = 0.35, width 0.65,
\* y = variableCosts / sales, height |operatingProfit| / sales.
C8_DegenerateSingleLossBlock ==
    (Called /\ input.sales > 0 /\ calculated.contributionMargin <= 0) =>
        /\ BlocksOfType("contribution") = {}
        /\ BlocksOfType("fixed") = {}
        /\ BlocksOfType("profit") = {}
        /\ Cardinality(BlocksOfType("loss")) = 1
        /\ \A i \in BlocksOfType("loss") :
            /\ layout.blocks[i].x = R(35, 100)
            /\ layout.blocks[i].width = R(65, 100)
            /\ layout.blocks[i].y = R(input.variableCosts, input.sales)
            /\ layout.blocks[i].height = R(Abs(calculated.operatingProfit), input.sales)

C8_Witness ==
    /\ Called
    /\ input.sales > 0
    /\ calculated.contributionMargin < 0
    /\ input.fixedCosts > 0
    /\ LossModeArg = "separate"
    /\ Cardinality(BlocksOfType("loss")) = 1
    /\ Len(layout.blocks) = 3

\* C9: with sales > 0 and contributionMargin > 0 the profit or loss block
\* starts at or below the bottom edge of the fixed-costs block.
C9_FixedAndProfitOrLossDoNotOverlap ==
    (Called /\ input.sales > 0 /\ calculated.contributionMargin > 0) =>
        \A i \in BlocksOfType("fixed") :
            \A j \in BlocksOfType("profit") \cup BlocksOfType("loss") :
                RLe(Bottom(layout.blocks[i]), layout.blocks[j].y)

C12_NoSalesNoBlocks ==
    (Called /\ input.sales <= 0) =>
        /\ layout.blocks = <<>>
        /\ layout.meta.heightExtension = One

C12_Witness ==
    /\ Called
    /\ input.sales < 0
    /\ input.variableCosts > 0
    /\ input.fixedCosts > 0
    /\ LossModeArg = "separate"
    /\ "customColors" \in DOMAIN options
    /\ layout.blocks = <<>>

C15_NullPropagation ==
    calcValues.returned =>
        LET v == calcValues.values
        IN  /\ v.safetyMargin.null <=> v.breakEvenPoint.null
            /\ v.breakEvenRatio.null <=> v.breakEvenPoint.null
            /\ v.safetyMarginRatio.null <=> v.breakEvenPoint.null
            /\ ~v.breakEvenPoint.null =>
                Val(v.safetyMargin) = RSub(RInt(input.sales), Val(v.breakEvenPoint))

C15_Witness ==
    /\ calcValues.returned
    /\ input.sales > 0
    /\ ~calcValues.values.breakEvenPoint.null
    /\ RLt(Zero, Val(calcValues.values.breakEvenPoint))
    /\ RLt(Val(calcValues.values.safetyMargin), Zero)
    /\ ~calcValues.values.safetyMarginRatio.null

\* C16: with sales = 0 and any costs, calculate returns, and the ratios it
\* returns as numbers (contributionMarginRatio, operatingProfitRatio,
\* variableCostRatio, fixedCostRatio) are exactly 0.
C16_ZeroSalesRatiosAreZero ==
    (calcValues.returned /\ input.sales = 0) =>
        /\ calcValues.values.contributionMarginRatio = Zero
        /\ calcValues.values.operatingProfitRatio = Zero
        /\ calcValues.values.variableCostRatio = Zero
        /\ calcValues.values.fixedCostRatio = Zero

C16_Witness ==
    /\ calcValues.returned
    /\ input.sales = 0
    /\ input.variableCosts > 0
    /\ input.fixedCosts > 0
    /\ calcValues.values.contributionMargin < 0
    /\ calcValues.values.variableCostRatio = Zero

\* C17: generateLayout emits exactly one annotation, a vertical line at
\* x = breakEvenPoint / sales, when showBEPLine is enabled (the default) and
\* breakEvenPoint is non-null, and no annotation otherwise.
C17_OneBEPLineOrNone ==
    Called =>
        IF Get(options, "showBEPLine", DEFAULT_DISPLAY_OPTIONS.showBEPLine)
            /\ ~calculated.breakEvenPoint.null
        THEN /\ Len(layout.annotations) = 1
             /\ layout.annotations[1].type = "line"
             /\ layout.annotations[1].orientation = "vertical"
             /\ layout.annotations[1].position.x =
                    RDiv(Val(calculated.breakEvenPoint), RInt(input.sales))
        ELSE layout.annotations = <<>>

C17_Witness ==
    /\ Called
    /\ input.sales > 0
    /\ "showBEPLine" \in DOMAIN options
    /\ options.showBEPLine
    /\ "bepOptions" \in DOMAIN options
    /\ RLt(Zero, Val(calculated.breakEvenPoint))
    /\ Len(layout.annotations) = 1
    /\ RLt(One, layout.annotations[1].position.x)

\* the label text holds the formatted break-even value
HasFormattedBEP(text) ==
    \E i \in DOMAIN text.parts :
        /\ text.parts[i].kind = "formatted"
        /\ text.parts[i].chars = format(formatter, Val(calculated.breakEvenPoint))

\* the label text holds a rendering of the break-even ratio
HasBEPRatio(text) ==
    \E i \in DOMAIN text.parts : text.parts[i].kind = "ratio"

\* C18: when the BEP annotation is emitted with its label shown, the label
\* text contains the formatted break-even value exactly when labelContent is
\* 'value' or 'both', and the break-even ratio exactly when labelContent is
\* 'ratio' or 'both'.
C18_LabelFollowsLabelContent ==
    (Called /\ Len(layout.annotations) = 1 /\ layout.annotations[1].text.defined) =>
        LET bepOptions == Get(options, "bepOptions", DEFAULT_DISPLAY_OPTIONS.bepOptions)
            labelContent == Get(bepOptions, "labelContent", "undefined")
        IN  /\ HasFormattedBEP(layout.annotations[1].text)
                <=> labelContent \in {"value", "both"}
            /\ HasBEPRatio(layout.annotations[1].text)
                <=> labelContent \in {"ratio", "both"}

\* the geometry of a layout: type and rectangle of every block, in order,
\* and meta.heightExtension
Geometry(out) ==
    [blocks |-> [i \in DOMAIN out.blocks |->
                    [type |-> out.blocks[i].type, x |-> out.blocks[i].x,
                     y |-> out.blocks[i].y, width |-> out.blocks[i].width,
                     height |-> out.blocks[i].height]],
     heightExtension |-> out.meta.heightExtension]

\* the options without colorScheme, customColors and locale
WithoutColorAndLocale(o) ==
    [k \in DOMAIN o \ {"colorScheme", "customColors", "locale"} |-> o[k]]

\* C19: colorScheme, customColors and locale do not move anything: the
\* layout has the block types, rectangles and heightExtension of the layout
\* generated for the same input and calculated values with those three
\* options removed, so any two option sets that differ only in them give the
\* same geometry.
C19_ColorAndLocaleLeaveGeometry ==
    Called =>
        Geometry(layout) =
            Geometry(generateLayout(NewEngine(EmptyObject), input, calculated,
                                    WithoutColorAndLocale(options)).output)

C19_Witness ==
    /\ Called
    /\ input.sales > 0
    /\ calculated.contributionMargin > 0
    /\ calculated.operatingProfit < 0
    /\ LossModeArg = "separate"
    /\ "colorScheme" \in DOMAIN options
    /\ "customColors" \in DOMAIN options
    /\ "locale" \in DOMAIN options
    /\ layout.blocks[1].color # DEFAULT_COLORS.sales
    /\ layout.blocks[1].label = LABELS_EN.sales
    /\ RLt(One, layout.meta.heightExtension)

\* the cache of the chart's plugin: $cvpTreemap or $cvp
Cache == IF chart.plugin = "contributionMarginTreemap" THEN chart.cvpTreemap ELSE chart.cvp

\* the caller's last operation was one of the documented update functions,
\* it did assign its input, and that input is valid
UpdatedWithValidInput ==
    /\ lastCall.op \in {"updateChart", "updateCVPChart"}
    /\ chart.pluginOptions.defined
    /\ validate(CVPInputOf(lastCall.input)).isValid

\* the treemap layout of the input of the caller's last operation, under the
\* plugin's display options
LayoutOfNewInput ==
    generateLayout(NewEngine(EmptyObject), lastCall.input, calculate(lastCall.input),
                   Get(chart.pluginOptions.o, "display", EmptyObject)).output

\* the treemap cache holds the layout l and nothing else, and what has been
\* drawn is l
TreemapShows(cache, l) ==
    /\ cache.blocks = l.blocks
    /\ cache.annotations = l.annotations
    /\ cache.layoutMeta = l.meta
    /\ cache.salesValue = lastCall.input.sales
    /\ drawn.defined =>
        /\ painted = renderBlocks(chartArea, l.blocks, l.meta)
        /\ drawn.annotations = l.annotations
        /\ drawn.salesValue = lastCall.input.sales

\* the cache holds the one result of the new input
HoldsResultOfNewInput(cache) ==
    /\ cache.defined
    /\ Len(cache.results) = 1
    /\ cache.results[1].input = lastCall.input
    /\ cache.results[1].calculated = calculate(lastCall.input)

\* C20: after updateChart (treemap plugin) or updateCVPChart (bar plugin)
\* with a valid new input, the cache is the one built from that input alone
\* (its results, and for the treemap its blocks, annotations and layout
\* metadata), and an afterDraw that follows renders exactly that data.
C20_UpdateProtocolRendersNewInput ==
    UpdatedWithValidInput =>
        /\ HoldsResultOfNewInput(Cache)
        /\ chart.plugin = "contributionMarginTreemap" =>
            TreemapShows(Cache, LayoutOfNewInput)
        /\ (chart.plugin = "contributionMargin" /\ drawn.defined) =>
            /\ drawn.results = <<calculateResult(lastCall.input)>>
            /\ drawn.salesValue = lastCall.input.sales

\* a treemap chart showing one input is updated with another valid input
\* and drawn
C20_Witness ==
    /\ UpdatedWithValidInput
    /\ chart.plugin = "contributionMarginTreemap"
    /\ Len(lastCall.previous) = 1
    /\ validate(CVPInputOf(lastCall.previous[1])).isValid
    /\ lastCall.previous[1] # lastCall.input
    /\ calculate(lastCall.input).operatingProfit < 0
    /\ drawn.defined
    /\ Len(painted) = 5
    /\ Cache.layoutMeta.hasLoss

\* the named field of the candidate is a finite number
IsFiniteNumber(v) == v.kind = "number"

\* v > 0, v < 0 and v > Number.MAX_SAFE_INTEGER = 2^53 - 1, for v = hi * 2^53 + lo
IsPositive(v) == v.hi > 0 \/ (v.hi = 0 /\ v.lo > 0)
IsNegative(v) == v.hi < 0 \/ (v.hi = 0 /\ v.lo < 0)
IsAboveMaxSafe(v) == v.hi > 1 \/ (v.hi = 1 /\ v.lo >= 0)

\* all three fields are present finite numbers, sales > 0, both costs >= 0,
\* none above the maximum safe value
FieldsInRange(x) ==
    /\ \A k \in {"sales", "variableCosts", "fixedCosts"} :
        /\ k \in DOMAIN x
        /\ IsFiniteNumber(x[k])
        /\ ~IsAboveMaxSafe(x[k])
    /\ IsPositive(x.sales)
    /\ ~IsNegative(x.variableCosts)
    /\ ~IsNegative(x.fixedCosts)

HasWarning(code, affectedField) ==
    \E k \in 1..Len(validation.result.warnings) :
        /\ validation.result.warnings[k].code = code
        /\ validation.result.warnings[k].affectedField = affectedField

\* C21: validate(input).isValid is true exactly when sales, variableCosts and
\* fixedCosts are all present finite numbers with sales > 0, variableCosts >= 0,
\* fixedCosts >= 0 and none above the maximum safe value; the warnings of the
\* business rules and of the breakdown check never enter isValid.
C21_ValidIffFieldsInRange ==
    validation.returned =>
        /\ validation.result.isValid <=> FieldsInRange(candidate)
        /\ validation.result.isValid <=> Len(validation.result.errors) = 0

\* an accepted input that draws the loss, the variable-costs and the breakdown
\* warnings
C21_Witness ==
    /\ validation.returned
    /\ validation.result.isValid
    /\ HasWarning("NEGATIVE_PROFIT", "operatingProfit")
    /\ HasWarning("VARIABLE_EXCEEDS_SALES", "variableCosts")
    /\ HasWarning("ABNORMAL_RATIO", "variableCostsBreakdown")
    /\ candidate.sales.hi = 1

SegmentTypes(segments) == {segments[k].type : k \in 1..Len(segments)}

\* C22: for every input with sales > 0 and non-negative costs,
\* generateSegments returns a 'loss' segment and no 'profit' segment when
\* operatingProfit < 0, and a 'profit' segment and no 'loss' segment when
\* operatingProfit >= 0.
C22_LossOrProfitSegment ==
    (/\ barCall.op = "generateSegments"
     /\ barCall.input.sales > 0
     /\ barCall.input.variableCosts >= 0
     /\ barCall.input.fixedCosts >= 0) =>
        IF calculate(barCall.input).operatingProfit < 0
        THEN /\ "loss" \in SegmentTypes(barCall.result)
             /\ "profit" \notin SegmentTypes(barCall.result)
        ELSE /\ "profit" \in SegmentTypes(barCall.result)
             /\ "loss" \notin SegmentTypes(barCall.result)

\* the part of C22 that holds: with a positive contribution margin the
\* segments carry exactly one of 'profit' and 'loss', by the sign of the profit
C22_HoldsForPositiveContributionMargin ==
    (/\ barCall.op = "generateSegments"
     /\ calculate(barCall.input).contributionMargin > 0) =>
        IF calculate(barCall.input).operatingProfit < 0
        THEN /\ "loss" \in SegmentTypes(barCall.result)
             /\ "profit" \notin SegmentTypes(barCall.result)
        ELSE /\ "profit" \in SegmentTypes(barCall.result)
             /\ "loss" \notin SegmentTypes(barCall.result)

\* (0.299 R + 0.587 G + 0.114 B) / 255 of a color
RelativeLuminance(color) ==
    RDiv(R(299 * HexChannels[color][1] + 587 * HexChannels[color][2]
               + 114 * HexChannels[color][3], 1000),
         RInt(255))

C23_HoldsExceptSeparateLoss ==
    Called =>
        \A k \in 1..Len(layout.blocks) :
            layout.blocks[k].meta.displayMode # "separate" =>
                layout.blocks[k].textColor =
                    IF RLt(R(1, 2), RelativeLuminance(layout.blocks[k].color))
                    THEN "#333333" ELSE "#FFFFFF"

\* C24: while the cache ($cvpTreemap, or $cvp for the bar plugin) is set, no
\* chart.update(), assignment to options.input or options.display, or draw
\* changes it: its blocks, results, options and layout metadata stay as they
\* are until the caller clears the cache.
C24_SetCacheIsKept ==
    [][(Cache.defined /\ lastCall'.op # "clear") => Cache' = Cache]_vars

\* chart.update() has run with a set cache after both options.input and
\* options.display were changed away from what the cache was built from
C24_Witness ==
    /\ lastCall.op = "update"
    /\ Cache.defined
    /\ chart.plugin = "contributionMarginTreemap"
    /\ Cache.results[1].input # CurrentInput(chart)[1]
    /\ validate(CVPInputOf(CurrentInput(chart)[1])).isValid
    /\ Cache.options # Get(HookOptions(chart), "display", DEFAULT_DISPLAY_OPTIONS)

\* the inputs that validate accepts, in their order
RECURSIVE ValidInputs(_)
ValidInputs(inputs) ==
    IF Len(inputs) = 0 THEN <<>>
    ELSE IF validate(CVPInputOf(Head(inputs))).isValid
         THEN <<Head(inputs)>> \o ValidInputs(Tail(inputs))
         ELSE ValidInputs(Tail(inputs))

\* the layout of one input by an engine of its own
OwnLayout(in, display) ==
    generateLayout(NewEngine(display), in, calculate(in), display).output

RECURSIVE BlocksOfInputs(_, _)
BlocksOfInputs(inputs, display) ==
    IF Len(inputs) = 0 THEN <<>>
    ELSE OwnLayout(Head(inputs), display).blocks \o BlocksOfInputs(Tail(inputs), display)

RECURSIVE AnnotationsOfInputs(_, _)
AnnotationsOfInputs(inputs, display) ==
    IF Len(inputs) = 0 THEN <<>>
    ELSE OwnLayout(Head(inputs), display).annotations
             \o AnnotationsOfInputs(Tail(inputs), display)

\* the cache is what processTreemapData returned for the chart's options
CacheIsProcessedData == lastCall.op \in {"new Chart", "update"}

\* the cache holds the given inputs and nothing else
CacheHolds(cache, inputs, display) ==
    /\ Len(cache.results) = Len(inputs)
    /\ \A k \in 1..Len(inputs) :
        /\ cache.results[k].input = inputs[k]
        /\ cache.results[k].calculated = calculate(inputs[k])
    /\ cache.blocks = BlocksOfInputs(inputs, display)
    /\ cache.annotations = AnnotationsOfInputs(inputs, display)

\* C25: processTreemapData returns null exactly when no input is valid;
\* otherwise its results are exactly the valid inputs in their original
\* order, and its blocks and annotations are those of the valid inputs.
C25_InvalidInputsAreSkipped ==
    CacheIsProcessedData =>
        /\ Cache.defined <=> Len(ValidInputs(CurrentInput(chart))) > 0
        /\ Cache.defined =>
            CacheHolds(Cache, ValidInputs(CurrentInput(chart)),
                       Get(HookOptions(chart), "display", EmptyObject))

\* chart.update() has rebuilt a cleared cache from an invalid period between
\* two valid ones
C25_Witness ==
    /\ lastCall.op = "update"
    /\ Cache.defined
    /\ Len(CurrentInput(chart)) = 3
    /\ validate(CVPInputOf(CurrentInput(chart)[1])).isValid
    /\ ~validate(CVPInputOf(CurrentInput(chart)[2])).isValid
    /\ validate(CVPInputOf(CurrentInput(chart)[3])).isValid
    /\ CurrentInput(chart)[1] # CurrentInput(chart)[3]

\* C28: no two blocks of $cvpTreemap.blocks share an id, also when
\* options.input is an array with two or more valid periods.
C28_CachedBlockIdsUnique ==
    Cache.defined =>
        \A j, k \in 1..Len(Cache.blocks) :
            j # k => Cache.blocks[j].id # Cache.blocks[k].id

\* the part of C28 that holds: the blocks of one valid period have distinct ids
C28_HoldsForOnePeriod ==
    (Cache.defined /\ Len(Cache.results) = 1) =>
        \A j, k \in 1..Len(Cache.blocks) :
            j # k => Cache.blocks[j].id # Cache.blocks[k].id

\* the layout a fresh engine constructed with displayOptions gives under
\* those options
LayoutDeterminedBy(displayOptions, in) ==
    LayoutEngine_generateLayout(NewLayoutEngine(displayOptions), in, calculate(in),
                                displayOptions).output

\* C26: for a LayoutEngine (or a CVP) constructed with options D,
\* generateLayout with the options argument omitted returns the layout
\* determined by D: its colors, label locale and lossDisplayMode.
C26_ConstructorOptionsGovernLayout ==
    (barCall.op = "generateLayout" /\ barCall.options = EmptyObject) =>
        barCall.result = LayoutDeterminedBy(barEngine.displayOptions, barCall.input)

\* what the code does instead: with the argument omitted the layout is the
\* one determined by the defaults, whatever D was
C26_OmittedOptionsGiveDefaults ==
    (barCall.op = "generateLayout" /\ barCall.options = EmptyObject) =>
        barCall.result = LayoutDeterminedBy(EmptyObject, barCall.input)

\* C27: for an engine constructed with options D, generateSegments(input,
\* calculated, options) returns the segments of a fresh engine constructed
\* with D, whether or not generateLayout was called before with another
\* colorScheme, customColors or locale.
C27_SegmentsIgnoreEarlierLayouts ==
    barCall.op = "generateSegments" =>
        barCall.result =
            LayoutEngine_generateSegments(NewLayoutEngine(barEngine.displayOptions),
                barCall.input, calculate(barCall.input), barCall.options)

\* the part of C27 that holds: the segments are those of the colors and
\* labels the instance holds at the call
C27_SegmentsFollowInstanceState ==
    barCall.op = "generateSegments" =>
        barCall.result =
            LayoutEngine_generateSegments(barEngine.this, barCall.input,
                calculate(barCall.input), barCall.options)

\* C29: for every input with sales > 0 and non-negative costs, the treemap
\* layout has a block of type 'loss' if and only if meta.hasLoss is true
\* (operatingProfit < 0), and never both a 'profit' block and a 'loss' block.
C29_LossBlockIffHasLoss ==
    (Called /\ input.sales > 0 /\ input.variableCosts >= 0 /\ input.fixedCosts >= 0) =>
        /\ BlocksOfType("loss") # {} <=> layout.meta.hasLoss
        /\ layout.meta.hasLoss <=> calculated.operatingProfit < 0
        /\ ~(BlocksOfType("profit") # {} /\ BlocksOfType("loss") # {})

\* the part of C29 that holds: a layout with hasLoss has a 'loss' block, and
\* no layout has both a 'profit' block and a 'loss' block
C29_HasLossImpliesLossBlock ==
    (Called /\ input.sales > 0) =>
        /\ layout.meta.hasLoss => BlocksOfType("loss") # {}
        /\ layout.meta.hasLoss <=> calculated.operatingProfit < 0
        /\ ~(BlocksOfType("profit") # {} /\ BlocksOfType("loss") # {})

\* C30: for every input that validate accepts with the ZERO_FIXED_COSTS
\* warning, calculate on the same input returns breakEvenPoint = 0.
C30_ZeroFixedCostsWarningMeansBreakEvenZero ==
    (/\ validation.returned
     /\ validation.result.isValid
     /\ HasWarning("ZERO_FIXED_COSTS", "fixedCosts")
     /\ calcValues.returned) =>
        calcValues.values.breakEvenPoint = Some(Zero)

\* the part of C30 that holds: with the warning the break-even point is 0 or
\* null, and 0 whenever the contribution margin ratio is above epsilon
C30_BreakEvenZeroOrNull ==
    (/\ validation.returned
     /\ validation.result.isValid
     /\ HasWarning("ZERO_FIXED_COSTS", "fixedCosts")
     /\ calcValues.returned) =>
        /\ calcValues.values.breakEvenPoint \in {Some(Zero), Null}
        /\ RLt(PRECISION_EPSILON, calcValues.values.contributionMarginRatio) =>
            calcValues.values.breakEvenPoint = Some(Zero)

====
